---- MODULE Spec2Model ----
(***************************************************************************)
(* The admin dashboard's API gateway client (ApiService) and the session   *)
(* layer around it (AuthProvider), as a state machine.                     *)
(*                                                                         *)
(* JavaScript values are tagged records; opaque strings (tokens, messages, *)
(* response bodies) are TLA+ strings; strings that the code processes      *)
(* character by character (URLs) are sequences of one-character strings.   *)
(***************************************************************************)
EXTENDS Integers, Sequences, FiniteSets, Bags, TLC

(***************************************************************************)
(* Bounds of the model.                                                    *)
(***************************************************************************)
\* calls of request that may be in flight together
MaxCalls == 2
\* 401 redirects (full page loads) followed in one behaviour
MaxPageLoads == 1
\* entries of the query mapping handed to buildUrl
MaxQsLen == 2
\* create, update, delete, restore or toggle calls started in one view
MaxMutations == 2
\* failed sign-ins on one LoginPage
MaxLoginTries == 1
\* the small prices of the product list, in paise: 0..MaxPaise
MaxPaise == 30
\* how far below 2^51 and 2^52 the large prices go
MaxOffset == 3
\* characters of a heading or title typed into a form
MaxTextLen == 2
\* entries of an editable list of a form
MaxItems == 2
\* blocks of a blog's content
MaxBlocks == 3

(***************************************************************************)
(* JavaScript values.                                                      *)
(***************************************************************************)
Undefined == [t |-> "undefined"]
Null == [t |-> "null"]
Str(s) == [t |-> "string", v |-> s]
Num(n) == [t |-> "number", v |-> n]
Bool(b) == [t |-> "boolean", v |-> b]
Obj(f) == [t |-> "object", f |-> f]

\* ToBoolean, as used by &&, ||, ?: and !
Truthy(v) ==
  CASE v.t = "undefined" -> FALSE
    [] v.t = "null" -> FALSE
    [] v.t = "string" -> v.v # ""
    [] v.t = "number" -> v.v # 0
    [] v.t = "boolean" -> v.v
    [] OTHER -> TRUE

\* a === b
StrictEq(a, b) == a.t = b.t /\ a = b

\* v.k and v?.k for a v that is neither null nor undefined
Get(v, k) == IF v.t = "object" /\ k \in DOMAIN v.f THEN v.f[k] ELSE Undefined

\* v.k throws a TypeError exactly when v is null or undefined
Nullish(v) == v.t \in {"undefined", "null"}

\* String(v), the conversion localStorage.setItem and URLSearchParams apply
JSString(v) ==
  CASE v.t = "string" -> v.v
    [] v.t = "undefined" -> "undefined"
    [] v.t = "null" -> "null"
    [] v.t = "boolean" -> IF v.v THEN "true" ELSE "false"
    [] v.t = "number" -> ToString(v.v)
    [] OTHER -> "[object Object]"

\* [], the list a fresh view shows and the server's list here
EmptyArray == [t |-> "array", v |-> << >>]

\* the errors the runtime itself throws
SyntaxError == Obj([name |-> Str("SyntaxError"), message |-> Str("Unexpected token")])
TypeError == Obj([name |-> Str("TypeError"), message |-> Str("Cannot read properties")])

(***************************************************************************)
(* JSON texts and their values: JSON.parse and JSON.stringify on the texts *)
(* the model's server sends and the session layer stores.                  *)
(***************************************************************************)
AdminUser == Obj([role |-> Str("admin")])
GuestUser == Obj([role |-> Str("guest")])

\* {user, token}: the shape ApiService.login declares
LoginTokenOnly == Obj([user |-> AdminUser, token |-> Str("t1")])
\* {user, token, accessToken, refreshToken}: both layers' fields, consistent
LoginBoth ==
  Obj([user |-> AdminUser, token |-> Str("t1"),
       accessToken |-> Str("t1"), refreshToken |-> Str("r1")])
\* a sign-in of a user whose role the dashboard does not admit
LoginGuest == Obj([user |-> GuestUser, token |-> Str("t2")])

JsonTable ==
  { <<"[]", EmptyArray>>,
    <<"42", Num(42)>>,
    <<"true", Bool(TRUE)>>,
    <<"null", Null>>,
    <<"\"hi\"", Str("hi")>>,
    <<"{\"message\":\"Not found\"}", Obj([message |-> Str("Not found")])>>,
    <<"{\"message\":\"\"}", Obj([message |-> Str("")])>>,
    <<"{\"role\":\"admin\"}", AdminUser>>,
    <<"{\"role\":\"guest\"}", GuestUser>>,
    <<"{\"user\":{\"role\":\"admin\"},\"token\":\"t1\"}", LoginTokenOnly>>,
    <<"{\"user\":{\"role\":\"admin\"},\"token\":\"t1\",\"accessToken\":\"t1\",\"refreshToken\":\"r1\"}",
      LoginBoth>>,
    <<"{\"user\":{\"role\":\"guest\"},\"token\":\"t2\"}", LoginGuest>> }

IsJsonText(text) == \E p \in JsonTable : p[1] = text

\* JSON.parse(text): the value, or a SyntaxError
JSONParse(text) ==
  IF IsJsonText(text)
    THEN [threw |-> FALSE, val |-> (CHOOSE p \in JsonTable : p[1] = text)[2]]
    ELSE [threw |-> TRUE, val |-> SyntaxError]

\* JSON.stringify(v) for the values of the table
JSONStringify(v) == (CHOOSE p \in JsonTable : p[2] = v)[1]

(***************************************************************************)
(* Browser storage (localStorage): key -> stored string, Null when absent. *)
(***************************************************************************)
API_BASE_URL == <<"http://localhost:5999">>
TOKEN_KEY == "authToken"
StorageKeys == {"authToken", "refreshToken", "userData"}
EmptyStorage == [k \in StorageKeys |-> Null]

getItem(st, k) == st[k]
setItem(st, k, v) == [st EXCEPT ![k] = Str(JSString(v))]
removeItem(st, k) == [st EXCEPT ![k] = Null]

(***************************************************************************)
(* ApiService: headers.                                                    *)
(***************************************************************************)
NoHeaders == [k \in {} |-> ""]
\* {...a, ...b}
Spread(a, b) ==
  [k \in DOMAIN a \cup DOMAIN b |-> IF k \in DOMAIN b THEN b[k] ELSE a[k]]

token(st) == getItem(st, TOKEN_KEY)

\* getAuthHeaders of a token captured when the service was constructed,
\* before any login: never a header
getAuthHeaders_atConstruction(st) == NoHeaders

getAuthHeaders(st) ==
  IF Truthy(token(st))
    THEN [Authorization |-> "Bearer " \o token(st).v]
    ELSE NoHeaders

\* the headers of the config request hands to fetch
requestHeaders(st, headers) ==
  Spread(Spread([k \in {"Content-Type"} |-> "application/json"],
                getAuthHeaders(st)),
         headers)

(***************************************************************************)
(* ApiService.parseResponse.  A response is [status, ct, body]: ct is the  *)
(* content-type header as its sequence of parts (empty: no header), body   *)
(* the raw text.  The result says whether it threw, the value, and whether *)
(* the body was read.                                                      *)
(***************************************************************************)
Includes(ct, part) == \E i \in 1..Len(ct) : ct[i] = part

\* parseResponse without the 204 shortcut: the body is always read
parseResponse_no204(response) ==
  LET parsed == JSONParse(response.body) IN
  IF Includes(response.ct, "application/json")
    THEN [threw |-> parsed.threw, val |-> parsed.val, bodyRead |-> TRUE]
    ELSE IF parsed.threw
           THEN [threw |-> FALSE, val |-> Str(response.body), bodyRead |-> TRUE]
           ELSE [threw |-> FALSE, val |-> parsed.val, bodyRead |-> TRUE]

\* parseResponse without the JSON.parse of a text body
parseResponse_rawText(response) ==
  IF response.status = 204
    THEN [threw |-> FALSE, val |-> Undefined, bodyRead |-> FALSE]
    ELSE IF Includes(response.ct, "application/json")
           THEN [threw |-> JSONParse(response.body).threw,
                 val |-> JSONParse(response.body).val, bodyRead |-> TRUE]
           ELSE [threw |-> FALSE, val |-> Str(response.body), bodyRead |-> TRUE]

\* parseResponse that falls back to the text when a declared JSON body does
\* not parse
parseResponse_lenientJson(response) ==
  IF response.status = 204
    THEN [threw |-> FALSE, val |-> Undefined, bodyRead |-> FALSE]
    ELSE IF JSONParse(response.body).threw
           THEN [threw |-> FALSE, val |-> Str(response.body), bodyRead |-> TRUE]
           ELSE [threw |-> FALSE, val |-> JSONParse(response.body).val,
                 bodyRead |-> TRUE]

parseResponse(response) ==
  IF response.status = 204
    THEN [threw |-> FALSE, val |-> Undefined, bodyRead |-> FALSE]
    ELSE LET parsed == JSONParse(response.body) IN
         IF Includes(response.ct, "application/json")
           THEN [threw |-> parsed.threw, val |-> parsed.val, bodyRead |-> TRUE]
           ELSE IF parsed.threw
                  THEN [threw |-> FALSE, val |-> Str(response.body),
                        bodyRead |-> TRUE]
                  ELSE [threw |-> FALSE, val |-> parsed.val, bodyRead |-> TRUE]

\* response.ok
Ok(response) == response.status \in 200..299

(***************************************************************************)
(* URL text, character by character.                                       *)
(***************************************************************************)
\* the characters encodeURIComponent escapes, among those the model uses
URIReserved == {"/", "?", "=", "&", "%", " ", "+"}

PercentCode(c) ==
  CASE c = "/" -> <<"%", "2", "F">>
    [] c = "?" -> <<"%", "3", "F">>
    [] c = "=" -> <<"%", "3", "D">>
    [] c = "&" -> <<"%", "2", "6">>
    [] c = "%" -> <<"%", "2", "5">>
    [] c = " " -> <<"%", "2", "0">>
    [] c = "+" -> <<"%", "2", "B">>

RECURSIVE encodeURIComponent(_)
encodeURIComponent(s) ==
  IF s = << >>
    THEN << >>
    ELSE (IF Head(s) \in URIReserved THEN PercentCode(Head(s)) ELSE <<Head(s)>>)
         \o encodeURIComponent(Tail(s))

\* "/login?next="
LoginNext == <<"/", "l", "o", "g", "i", "n", "?", "n", "e", "x", "t", "=">>

\* `/login?next=${encodeURIComponent(pathname + search)}`
loginRedirect(loc) == LoginNext \o encodeURIComponent(loc.pathname \o loc.search)

(***************************************************************************)
(* ApiService.buildUrl.  path is a sequence of characters; qs is           *)
(* [given, entries]: whether a mapping was passed, and its entries         *)
(* <<key, value>> in Object.entries order, a string value being            *)
(* [t |-> "string", v |-> its characters] here.                            *)
(***************************************************************************)
Digit(d) == <<"0", "1", "2", "3", "4", "5", "6", "7", "8", "9">>[d + 1]

RECURSIVE Digits(_)
Digits(n) == IF n < 10 THEN <<Digit(n)>> ELSE Digits(n \div 10) \o <<Digit(n % 10)>>

\* String(v), as characters
StringChars(v) ==
  CASE v.t = "string" -> v.v
    [] v.t = "number" -> Digits(v.v)
    [] v.t = "boolean" -> IF v.v THEN <<"t", "r", "u", "e">>
                                 ELSE <<"f", "a", "l", "s", "e">>
    [] v.t = "null" -> <<"n", "u", "l", "l">>
    [] OTHER -> <<"u", "n", "d", "e", "f", "i", "n", "e", "d">>

\* URLSearchParams.toString: the application/x-www-form-urlencoded serializer
RECURSIVE FormEncode(_)
FormEncode(s) ==
  IF s = << >>
    THEN << >>
    ELSE (IF Head(s) = " " THEN <<"+">>
          ELSE IF Head(s) \in URIReserved THEN PercentCode(Head(s))
          ELSE <<Head(s)>>)
         \o FormEncode(Tail(s))

RECURSIVE SearchParamsToString(_)
SearchParamsToString(sp) ==
  IF sp = << >>
    THEN << >>
    ELSE FormEncode(sp[1][1]) \o <<"=">> \o FormEncode(sp[1][2])
         \o (IF Len(sp) > 1 THEN <<"&">> ELSE << >>)
         \o SearchParamsToString(Tail(sp))

\* the forEach without its test: every entry is set
SearchParamsOf_keepAbsent(entries) ==
  [i \in 1..Len(entries) |-> <<entries[i][1], StringChars(entries[i][2])>>]

\* the forEach over Object.entries(qs): sp.set(k, String(v)) unless v is
\* undefined or null
RECURSIVE SearchParamsOf(_)
SearchParamsOf(entries) ==
  IF entries = << >>
    THEN << >>
    ELSE (IF entries[1][2].t \in {"undefined", "null"}
            THEN << >>
            ELSE << <<entries[1][1], StringChars(entries[1][2])>> >>)
         \o SearchParamsOf(Tail(entries))

buildUrl(path, qs) ==
  LET url == API_BASE_URL
             \o (IF path # << >> /\ Head(path) = "/" THEN path ELSE <<"/">> \o path)
  IN  IF ~qs.given
        THEN url
        ELSE LET query == SearchParamsToString(SearchParamsOf(qs.entries))
             IN  IF query # << >> THEN url \o <<"?">> \o query ELSE url

(***************************************************************************)
(* ApiService.request, from the moment fetch settles.  net is what fetch   *)
(* did: [threw |-> TRUE, error] or [threw |-> FALSE, response].  env is    *)
(* [storage, loc, hrefs]: localStorage, window.location and the values     *)
(* assigned to window.location.href so far in this turn.                   *)
(***************************************************************************)
\* errorMessage that never looks at data.message
errorMessage_noField(data) ==
  IF data.t = "string" THEN data ELSE Str("An error occurred")

\* errorMessage that never falls back to the text
errorMessage_noText(data) ==
  LET a == IF Truthy(data) THEN Get(data, "message") ELSE data
  IN  IF Truthy(a) THEN a ELSE Str("An error occurred")

\* (data && data.message) || (typeof data === "string" ? data : "An error occurred")
errorMessage(data) ==
  LET a == IF Truthy(data) THEN Get(data, "message") ELSE data
  IN  IF Truthy(a)
        THEN a
        ELSE IF data.t = "string" THEN data ELSE Str("An error occurred")

\* localStorage.removeItem(TOKEN_KEY); window.location.href = `/login?next=...`
clearSession(env) ==
  [env EXCEPT !.storage = removeItem(env.storage, TOKEN_KEY),
              !.hrefs = Append(env.hrefs, loginRedirect(env.loc))]

\* the try block: what it returned or threw, and the environment it left
requestTry(net, env) ==
  IF net.threw
    THEN [threw |-> TRUE, val |-> net.error, env |-> env, bodyRead |-> FALSE]
    ELSE LET response == net.response
             parsed == parseResponse(response)
         IN  IF parsed.threw
               THEN [threw |-> TRUE, val |-> parsed.val, env |-> env,
                     bodyRead |-> parsed.bodyRead]
               ELSE IF ~Ok(response)
                 THEN [threw |-> TRUE,
                       val |-> Obj([message |-> errorMessage(parsed.val),
                                    status |-> Num(response.status)]),
                       env |-> IF response.status = 401
                                 THEN clearSession(env) ELSE env,
                       bodyRead |-> parsed.bodyRead]
                 ELSE [threw |-> FALSE, val |-> parsed.val, env |-> env,
                       bodyRead |-> parsed.bodyRead]

\* a catch block that ends the session on every error
requestCatch_anyError(error, env) == clearSession(env)

\* the catch block: error?.status === 401 clears the session; rethrows
requestCatch(error, env) ==
  IF StrictEq(Get(error, "status"), Num(401)) THEN clearSession(env) ELSE env

request(net, env) ==
  LET t == requestTry(net, env)
  IN  IF t.threw
        THEN [threw |-> TRUE, val |-> t.val, env |-> requestCatch(t.val, t.env),
              bodyRead |-> t.bodyRead]
        ELSE t

(***************************************************************************)
(* ApiService.login / register, after their request settled: r is what     *)
(* request did.  res.token of a null or undefined res throws a TypeError.  *)
(***************************************************************************)
\* login that stores res.token before it looks at what request did
login_storeFirst(r) ==
  IF Nullish(r.val)
    THEN [r EXCEPT !.threw = TRUE, !.val = IF r.threw THEN r.val ELSE TypeError]
    ELSE [r EXCEPT !.env.storage =
                     setItem(r.env.storage, TOKEN_KEY, Get(r.val, "token"))]

login(r) ==
  IF r.threw
    THEN r
    ELSE IF Nullish(r.val)
      THEN [r EXCEPT !.threw = TRUE, !.val = TypeError]
      ELSE [r EXCEPT !.env.storage =
                       setItem(r.env.storage, TOKEN_KEY, Get(r.val, "token"))]

register(r) ==
  IF r.threw
    THEN r
    ELSE IF Nullish(r.val)
      THEN [r EXCEPT !.threw = TRUE, !.val = TypeError]
      ELSE [r EXCEPT !.env.storage =
                       setItem(r.env.storage, TOKEN_KEY, Get(r.val, "token"))]

(***************************************************************************)
(* AuthProvider (the auth context).                                        *)
(***************************************************************************)
allowedRoles == {Str("admin"), Str("user")}
AccessDenied ==
  Obj([name |-> Str("Error"),
       message |-> Str("Access denied. Insufficient privileges.")])

\* !!user && ['admin', 'user'].includes(user.role)
isAuthenticatedOf(u) == Truthy(u) /\ Get(u, "role") \in allowedRoles

\* AuthProvider.login after `await apiService.login(...)`: r is what
\* apiService.login did, u the user state.  The result carries the user state.
ctxLogin(r, u) ==
  IF r.threw
    THEN [threw |-> TRUE, val |-> r.val, env |-> r.env, user |-> u]
    ELSE LET response == r.val
             ru == Get(response, "user")
         IN  IF Nullish(ru)
               THEN [threw |-> TRUE, val |-> TypeError, env |-> r.env, user |-> u]
               ELSE IF Get(ru, "role") \notin allowedRoles
                 THEN [threw |-> TRUE, val |-> AccessDenied, env |-> r.env,
                       user |-> u]
                 ELSE [threw |-> FALSE, val |-> Undefined,
                       env |-> [r.env EXCEPT !.storage =
                                 setItem(
                                   setItem(
                                     setItem(r.env.storage, "authToken",
                                             Get(response, "accessToken")),
                                     "refreshToken", Get(response, "refreshToken")),
                                   "userData", Str(JSONStringify(ru)))],
                       user |-> ru]

\* a logout that leaves the refresh token behind
logout_keepRefresh(st) == removeItem(removeItem(st, "authToken"), "userData")

\* AuthProvider.logout
logout(st) ==
  removeItem(removeItem(removeItem(st, "authToken"), "refreshToken"), "userData")

\* a mount effect that restores the user from userData alone
mountEffect_noTokenTest(st, u) ==
  IF Truthy(getItem(st, "userData")) /\ ~JSONParse(getItem(st, "userData").v).threw
    THEN [storage |-> st, user |-> JSONParse(getItem(st, "userData").v).val]
    ELSE [storage |-> st, user |-> u]

\* the mount effect: restore the user from storage
mountEffect(st, u) ==
  LET tk == getItem(st, "authToken")
      userData == getItem(st, "userData")
  IN  IF Truthy(tk) /\ Truthy(userData)
        THEN LET parsed == JSONParse(userData.v)
             IN  IF parsed.threw
                   THEN [storage |-> removeItem(removeItem(st, "authToken"),
                                                "userData"),
                         user |-> u]
                   ELSE [storage |-> st, user |-> parsed.val]
        ELSE [storage |-> st, user |-> u]

(***************************************************************************)
(* Toasts.  useToast is a hook with state of its own in every component    *)
(* that calls it: toasts maps the component to its list.  A toast is       *)
(* [type, message]; its id is its position here.                           *)
(***************************************************************************)
Components == {"AppContent", "LoginPage", "View"}
NoToasts == [c \in Components |-> << >>]

addToast(ts, type, message) == Append(ts, [type |-> type, message |-> message])

removeToast(ts, id) ==
  [i \in 1..(Len(ts) - 1) |-> IF i < id THEN ts[i] ELSE ts[i + 1]]

\* toast.error(error.message || fallback)
toastError(ts, error, fallback) ==
  addToast(ts, "error",
           IF Truthy(Get(error, "message")) THEN Get(error, "message")
                                            ELSE Str(fallback))

\* the list AppContent hands to its ToastContainer: its own
renderedToasts(toasts) == toasts["AppContent"]

(***************************************************************************)
(* The list views (Categories, Products, Orders, Blogs, Recipes).  A view  *)
(* is [section, list, loading, ops, nextId, started, lastFetch,            *)
(* fetchFailed, toasts]; ops are its handlers awaiting the gateway:        *)
(* [id, type, pending, done, data], pending the calls not yet settled      *)
(* (Promise.all awaits two), done whether the await already rejected, data *)
(* what the list call resolved with.  list is [from, val]: the fetch that  *)
(* set it (0: none yet) and the value.                                     *)
(***************************************************************************)
ViewSections == {"categories", "products", "orders", "blogs", "recipes"}

\* fetchBlogs, fetchData and fetchAll start with setLoading(true)
setsLoading(section) == section \in {"blogs", "products", "recipes"}
\* fetchData and fetchAll await Promise.all of the list call and getCategories
fetchParts(section) == IF section \in {"products", "recipes"} THEN 2 ELSE 1
\* Orders has no create, update or delete
hasMutations(section) == section # "orders"

\* the value the view keeps of what the list call resolved with
listOf(section, data) ==
  CASE section = "blogs" ->
         \* setBlogs(data.items || data)
         IF Nullish(data) THEN [threw |-> TRUE, val |-> TypeError]
         ELSE [threw |-> FALSE,
               val |-> IF Truthy(Get(data, "items")) THEN Get(data, "items")
                                                     ELSE data]
    [] section = "recipes" ->
         \* setRecipes(rec?.items || [])
         [threw |-> FALSE,
          val |-> IF ~Nullish(data) /\ Truthy(Get(data, "items"))
                    THEN Get(data, "items") ELSE EmptyArray]
    [] OTHER -> [threw |-> FALSE, val |-> data]

NoView ==
  [section |-> "none", list |-> [from |-> 0, val |-> EmptyArray],
   loading |-> FALSE, ops |-> {}, nextId |-> 1, started |-> 0,
   lastFetch |-> 0, fetchFailed |-> FALSE, toasts |-> NoToasts]

fetchOp(id, section) ==
  [id |-> id, type |-> "fetch", pending |-> 1..fetchParts(section),
   done |-> FALSE, data |-> Undefined]

mutationOp(id) ==
  [id |-> id, type |-> "mutation", pending |-> {1}, done |-> FALSE,
   data |-> Undefined]

\* fetchCategories / fetchData / fetchOrders / fetchBlogs / fetchAll up to
\* their await
startFetch(v) ==
  [v EXCEPT !.loading = IF setsLoading(v.section) THEN TRUE ELSE @,
            !.ops = @ \cup {fetchOp(v.nextId, v.section)},
            !.lastFetch = v.nextId,
            !.nextId = @ + 1]

\* the view mounts: useState initial values, then the effect's fetch
mountView(section, toasts) ==
  startFetch([NoView EXCEPT !.section = section, !.loading = TRUE,
                            !.toasts = [toasts EXCEPT !["View"] = << >>]])

\* a handler (handleSubmit, handleDelete, softDelete, restore,
\* toggleFeatured, ...) up to its await of the mutating call
startMutation(v) ==
  [v EXCEPT !.ops = @ \cup {mutationOp(v.nextId)},
            !.nextId = @ + 1,
            !.started = @ + 1]

\* a fetch whose call number part settled with req: the rest of the try,
\* the catch and the finally
settleFetch(v, op, part, req) ==
  LET rest == op.pending \ {part}
      without == v.ops \ {op}
      failed(error) ==
        [v EXCEPT !.ops = IF rest = {} THEN without
                          ELSE without \cup {[op EXCEPT !.pending = rest,
                                                        !.done = TRUE]},
                  !.toasts["View"] = toastError(@, error, "Failed to fetch"),
                  !.loading = FALSE,
                  !.fetchFailed = TRUE]
      data == IF part = 1 THEN req.val ELSE op.data
  IN  IF op.done
        THEN [v EXCEPT !.ops = IF rest = {} THEN without
                               ELSE without \cup {[op EXCEPT !.pending = rest]}]
        ELSE IF req.threw
          THEN failed(req.val)
          ELSE IF rest # {}
            THEN [v EXCEPT !.ops = without \cup {[op EXCEPT !.pending = rest,
                                                            !.data = data]}]
            ELSE IF listOf(v.section, data).threw
              THEN failed(listOf(v.section, data).val)
              ELSE [v EXCEPT !.ops = without,
                             !.list = [from |-> op.id,
                                       val |-> listOf(v.section, data).val],
                             !.loading = FALSE]

\* a handler that fetches the list again whatever its call did
settleMutation_alwaysRefetch(v, op, req) ==
  startFetch([v EXCEPT !.ops = @ \ {op}])

\* a handler whose mutating call settled with req: toast.success and the
\* re-fetch, or the catch.  Every handler has texts of its own ("Category
\* deleted successfully", "Failed to delete category", ...): one success
\* text and one fallback text stand for them.
settleMutation(v, op, req) ==
  IF req.threw
    THEN [v EXCEPT !.ops = @ \ {op},
                   !.toasts["View"] = toastError(@, req.val, "Failed to save")]
    ELSE startFetch([v EXCEPT !.ops = @ \ {op},
                              !.toasts["View"] =
                                addToast(@, "success", Str("Saved"))])

\* LoginPage.handleSubmit after `await login(email, password)`: fin is what
\* AuthProvider.login did; a LoginPage that is no longer rendered has no state
afterSubmit(kind, fin, v) ==
  IF kind # "pageLogin"
    THEN v
    ELSE IF fin.threw
      THEN [v EXCEPT !.toasts["LoginPage"] = toastError(@, fin.val, "Login failed")]
      ELSE [v EXCEPT !.toasts["LoginPage"] =
                       IF isAuthenticatedOf(fin.user)
                         THEN << >>
                         ELSE addToast(@, "success",
                                       Str("Welcome to Admin Dashboard!"))]

(***************************************************************************)
(* The edit forms of the sections.  No form is on screen in the            *)
(* specifications of the gateway and the session.                          *)
(***************************************************************************)
NoForm == [section |-> "none"]

(***************************************************************************)
(* The numbers of the product form.  A JavaScript number is an IEEE 754    *)
(* double; the prices met here are zero or positive and normal, so a       *)
(* number is sig * 2^exp with sig a natural of exactly 53 binary digits,   *)
(* or zero.  A natural of that size is a sequence of binary digits, most   *)
(* significant first, without a leading zero; zero is << >>.               *)
(***************************************************************************)
The(S) == CHOOSE x \in S : TRUE

Zeros(k) == [i \in 1..k |-> 0]
Ones(k) == [i \in 1..k |-> 1]

RECURSIVE bitsOf(_)
bitsOf(n) == IF n = 0 THEN << >> ELSE Append(bitsOf(n \div 2), n % 2)

\* n written with w digits, leading zeros kept
digits(n, w) == The({ Zeros(w - Len(b)) \o b : b \in {bitsOf(n)} })

RECURSIVE stripZeros(_)
stripZeros(b) == IF b = << >> \/ b[1] = 1 THEN b ELSE stripZeros(Tail(b))

\* the number the first i digits of b write
RECURSIVE valueUpTo(_, _)
valueUpTo(b, i) == IF i = 0 THEN 0 ELSE 2 * valueUpTo(b, i - 1) + b[i]

\* b with leading zeros up to a whole number of 16-digit groups
padded(b) == Zeros((16 - (Len(b) % 16)) % 16) \o b

\* the j-th group of 16 digits of b, as a number
group(b, j) == valueUpTo(SubSeq(b, 16 * j - 15, 16 * j), 16)

\* the first j groups of b, times c, plus carry
RECURSIVE mulAddFrom(_, _, _, _)
mulAddFrom(b, j, c, carry) ==
  IF j = 0 THEN bitsOf(carry)
  ELSE The({ mulAddFrom(b, j - 1, c, t \div 65536) \o digits(t % 65536, 16) :
             t \in {group(b, j) * c + carry} })

\* b * c + k for small c and k
mulAdd(b, c, k) ==
  stripZeros(The({ mulAddFrom(n, Len(n) \div 16, c, k) : n \in {padded(b)} }))

\* quotient and remainder of the first j groups of b by d
RECURSIVE divUpTo(_, _, _)
divUpTo(b, j, d) ==
  IF j = 0 THEN [q |-> << >>, r |-> 0]
  ELSE The({ The({ [q |-> h.q \o digits(t \div d, 16), r |-> t % d] :
                   t \in {h.r * 65536 + group(b, j)} }) :
             h \in {divUpTo(b, j - 1, d)} })

divSmall(b, d) ==
  The({ [q |-> stripZeros(h.q), r |-> h.r] :
        h \in { divUpTo(n, Len(n) \div 16, d) : n \in {padded(b)} } })

Zero == [sig |-> << >>, exp |-> 0]

\* round to nearest, ties to even: the double nearest to (n + f) * 2^exp,
\* where 0 < f < 1 when sticky and f = 0 otherwise
roundToDouble(n, sticky, exp) ==
  IF n = << >> THEN Zero
  ELSE IF Len(n) <= 53
  THEN [sig |-> n \o Zeros(53 - Len(n)), exp |-> exp - (53 - Len(n))]
  ELSE LET kept == SubSeq(n, 1, 53)
           rest == sticky \/ \E i \in 55..Len(n) : n[i] = 1
           up   == n[54] = 1 /\ (rest \/ kept[53] = 1)
       IN  The({ IF Len(sig) = 54
                 THEN [sig |-> SubSeq(sig, 1, 53),
                       exp |-> exp + Len(n) - 53 + 1]
                 ELSE [sig |-> sig, exp |-> exp + Len(n) - 53] :
                 sig \in {IF up THEN mulAdd(kept, 1, 1) ELSE kept} })

\* the number an integer literal of a JSON answer parses to
numberOf(n) == roundToDouble(n, FALSE, 0)

\* x / d for a small integer d: the quotient carries ten digits beyond the
\* 53 kept, and a remainder makes the rest of the expansion non-zero
divide(x, d) ==
  The({ IF v.sig = << >> THEN Zero
        ELSE The({ roundToDouble(h.q, h.r # 0, v.exp - 10) :
                   h \in {divSmall(v.sig \o Zeros(10), d)} }) :
        v \in {x} })

\* x * c for a small integer c
times(x, c) ==
  The({ IF v.sig = << >> THEN Zero
        ELSE The({ roundToDouble(n, FALSE, v.exp) :
                   n \in {mulAdd(v.sig, c, 0)} }) :
        v \in {x} })

\* Math.round: the nearest integer, a tie going up
MathRound(x) ==
  The({ IF v.sig = << >> THEN Zero
        ELSE IF v.exp >= 0 THEN v
        ELSE IF -v.exp > 53 THEN Zero
        ELSE numberOf(mulAdd(SubSeq(v.sig, 1, 53 + v.exp), 1,
                             v.sig[53 + v.exp + 1])) :
        v \in {x} })

\* NaN, what parseFloat returns for a text that starts with no number
NaN == [nan |-> TRUE]

\* v || 0 on a number or a missing value
orZero(v) == IF v \in {Undefined, Null, NaN, Zero} THEN Zero ELSE v

\* an integer amount, and an amount of two decimals: the double nearest
\* to cents / 100, which is what dividing the two integers gives
integer(n) == numberOf(bitsOf(n))
decimal(cents) == divide(integer(cents), 100)

\* parseFloat on the texts typed into the price field
PriceTexts == {"", "abc", "12", "0.5", "19.99", "0.07"}
parseFloat(text) ==
  CASE text = "12" -> integer(12)
    [] text = "0.5" -> decimal(50)
    [] text = "19.99" -> decimal(1999)
    [] text = "0.07" -> decimal(7)
    [] OTHER -> NaN

(***************************************************************************)
(* The text of the forms: a string is a sequence of one-character strings, *)
(* over an alphabet with a lower-case letter, an upper-case letter, a      *)
(* digit, a space, a dash and a punctuation mark.                          *)
(***************************************************************************)
LowerAlnum == {"a", "b", "1"}
Whitespace == {" "}
Chars == LowerAlnum \cup Whitespace \cup {"B", "-", "!"}

toLowerCase(s) ==
  The({ [i \in DOMAIN t |-> IF t[i] = "B" THEN "b" ELSE t[i]] : t \in {s} })

trim(s) ==
  The({ The({ IF inked = {} THEN << >>
              ELSE SubSeq(t, CHOOSE i \in inked : \A j \in inked : i <= j,
                             CHOOSE i \in inked : \A j \in inked : i >= j) :
              inked \in {{i \in DOMAIN t : t[i] \notin Whitespace}} }) :
        t \in {s} })

\* the entries of marks, a sequence of strings of at most one character,
\* written one after the other
joined(marks) ==
  LET kept(i) == Cardinality({j \in 1..i : marks[j] # << >>})
  IN  [n \in 1..kept(Len(marks)) |->
         marks[CHOOSE i \in DOMAIN marks : marks[i] # << >> /\ kept(i) = n][1]]

\* s.replace(/[class]+/g, rep) for rep of at most one character, class being
\* the set of characters the bracket expression matches: every run of
\* characters of the class becomes rep
replaceRuns(s, class, rep) ==
  The({ joined(marks) :
        marks \in { [i \in DOMAIN t |->
                       IF t[i] \notin class THEN <<t[i]>>
                       ELSE IF i = 1 \/ t[i - 1] \notin class THEN rep
                       ELSE << >>] : t \in {s} } })

\* s.replace(/(^-|-$)/g, "")
trimDashes(s) ==
  The({ LET from == IF t # << >> /\ t[1] = "-" THEN 2 ELSE 1
            to   == IF Len(t) >= from /\ t[Len(t)] = "-"
                    THEN Len(t) - 1 ELSE Len(t)
        IN  SubSeq(t, from, to) :
        t \in {s} })

\* the characters matched by [^a-z0-9] and by [^a-z0-9\s-]
NotAlnum == Chars \ LowerAlnum
NotSlugChar == Chars \ (LowerAlnum \cup Whitespace \cup {"-"})

\* Blogs' genSlug
genSlug(s) == trimDashes(replaceRuns(toLowerCase(s), NotAlnum, <<"-">>))

\* Blogs' genSlugWithTimestamp, now being what Date.now() returns
genSlugWithTimestamp(title, now) ==
  The({ IF base = << >> THEN << >> ELSE <<now, "-">> \o base :
        base \in { replaceRuns(
                     replaceRuns(
                       replaceRuns(trim(toLowerCase(title)), NotSlugChar, << >>),
                       Whitespace, <<"-">>),
                     {"-"}, <<"-">>) } })

\* Recipes' generateSlug
generateSlug(s) ==
  trimDashes(replaceRuns(trim(toLowerCase(s)), NotAlnum, <<"-">>))

\* list.map((p) => p.trim()).filter(Boolean)
trimmedEntries(list) ==
  The({ SelectSeq(t, LAMBDA p : p # << >>) :
        t \in { [i \in DOMAIN list |-> trim(list[i])] } })

\* Products' useState of formData, and what handleOpenModal sets for a new
\* product; name and category are the two fields handleSubmit requires
NewProductForm == [name |-> << >>, category |-> Str(""), pricePaise |-> Zero]

\* handleOpenModal(product): paise -> rupees for the form
handleOpenModal(product) ==
  IF product = Undefined
  THEN [editingProduct |-> Null, formData |-> NewProductForm]
  ELSE [editingProduct |-> product,
        formData |-> [name |-> product.name,
                      category |-> product.category,
                      pricePaise |-> divide(orZero(product.pricePaise), 100)]]

\* the price field's onChange
onChangePrice(formData, text) ==
  [formData EXCEPT !.pricePaise = orZero(parseFloat(text))]

\* handleSubmit with the amount cut off (Math.floor) instead of rounded
handleSubmit_floor(formData) ==
  IF trim(formData.name) = << >> \/ ~Truthy(formData.category)
  THEN [sent |-> FALSE]
  ELSE [sent |-> TRUE,
        productData |->
          [formData EXCEPT
             !.pricePaise =
               The({ IF v.sig = << >> \/ v.exp >= 0 THEN v
                     ELSE IF -v.exp >= 53 THEN Zero
                     ELSE numberOf(SubSeq(v.sig, 1, 53 + v.exp)) :
                     v \in {times(orZero(formData.pricePaise), 100)} })]]

\* handleSubmit up to the call of updateProduct or createProduct:
\* rupees -> paise
handleSubmit(formData) ==
  IF trim(formData.name) = << >> \/ ~Truthy(formData.category)
  THEN [sent |-> FALSE]
  ELSE [sent |-> TRUE,
        productData |->
          [formData EXCEPT
             !.pricePaise = MathRound(times(orZero(formData.pricePaise), 100))]]

(***************************************************************************)
(* The editable lists of the blog and recipe forms.  An index is the one   *)
(* the code uses, counted from 0.                                          *)
(***************************************************************************)
\* list.filter((_, idx) => idx !== i), and splice(i, 1) on a copy
without(list, i) ==
  The({ [n \in 1..(Len(l) - (IF i + 1 \in DOMAIN l THEN 1 ELSE 0)) |->
           IF n <= i THEN l[n] ELSE l[n + 1]] : l \in {list} })

\* next.length ? next : [""]
orBlank(list) == IF Len(list) > 0 THEN list ELSE << << >> >>

\* a copy with entry i replaced
withEntry(list, i, value) == [list EXCEPT ![i + 1] = value]

\* obj.name || [] for a list that may be missing
listOr(obj, name) == IF name \in DOMAIN obj THEN obj[name] ELSE << >>

\* Recipes' useState of form and openDrawer() for a new recipe
NewRecipeForm ==
  [title |-> << >>, slug |-> << >>, ingredients |-> << << >> >>,
   steps |-> << << >> >>]

\* Recipes' openDrawer(r)
openDrawer(r) ==
  IF r = Undefined
  THEN [editing |-> Null, form |-> NewRecipeForm]
  ELSE [editing |-> r,
        form |-> [title |-> r.title, slug |-> r.slug,
                  ingredients |-> orBlank(listOr(r, "ingredients")),
                  steps |-> orBlank(listOr(r, "steps"))]]

onChangeField(fm, key, value) == [fm EXCEPT ![key] = value]

onChangeTitle(fm, title) ==
  [fm EXCEPT !.title = title,
                !.slug = IF fm.slug # << >> THEN fm.slug
                         ELSE generateSlug(title)]

updateArrayField(fm, key, idx, value) ==
  [fm EXCEPT ![key] = withEntry(@, idx, value)]

addArrayItem(fm, key) == [fm EXCEPT ![key] = @ \o << << >> >>]

\* removeArrayItem without the fallback to one blank entry
removeArrayItem_bare(fm, key, idx) ==
  [fm EXCEPT ![key] = without(@, idx)]

removeArrayItem(fm, key, idx) ==
  [fm EXCEPT ![key] = orBlank(without(@, idx))]

\* Recipes' onSubmit up to the call of updateRecipe or createRecipe
onSubmit(fm) ==
  [title |-> trim(fm.title),
   slug |-> IF trim(fm.slug) # << >> THEN trim(fm.slug)
            ELSE generateSlug(fm.title),
   ingredients |-> trimmedEntries(fm.ingredients),
   steps |-> trimmedEntries(fm.steps)]

(***************************************************************************)
(* The blog form and its block editor.                                     *)
(***************************************************************************)
BlockTypes == {"section", "image", "quote", "list", "html", "markdown"}

emptyBlock(t) ==
  CASE t = "section" -> [type |-> "section", subheading |-> << >>,
                         body |-> << << >> >>]
    [] t = "image" -> [type |-> "image", image |-> [url |-> << >>, alt |-> << >>]]
    [] t = "quote" -> [type |-> "quote", quote |-> << >>, cite |-> << >>]
    [] t = "list" -> [type |-> "list",
                      list |-> [ordered |-> FALSE, items |-> << << >> >>]]
    [] t = "html" -> [type |-> "html", html |-> << >>]
    [] t = "markdown" -> [type |-> "markdown", markdown |-> << >>]

\* BlockEditor's set(patch) for a patch of one field
set(block, name, value) ==
  [k \in DOMAIN block \cup {name} |-> IF k = name THEN value ELSE block[k]]

\* block.body || [] and block.list?.items || []
bodyOf(block) == listOr(block, "body")
itemsOf(block) ==
  IF "list" \in DOMAIN block THEN block.list.items ELSE << >>
\* !!block.list?.ordered
orderedOf(block) ==
  IF "list" \in DOMAIN block THEN block.list.ordered ELSE FALSE

\* the section block's paragraph handlers
bodyChange(block, i, value) == set(block, "body", withEntry(bodyOf(block), i, value))
bodyRemove(block, i) == set(block, "body", orBlank(without(bodyOf(block), i)))
bodyAdd(block) == set(block, "body", bodyOf(block) \o << << >> >>)

\* the list block's item handlers
itemsChange(block, i, value) ==
  set(block, "list", [ordered |-> orderedOf(block),
                      items |-> withEntry(itemsOf(block), i, value)])
itemsRemove(block, i) ==
  set(block, "list", [ordered |-> orderedOf(block),
                      items |-> orBlank(without(itemsOf(block), i))])
itemsAdd(block) ==
  set(block, "list", [ordered |-> orderedOf(block),
                      items |-> itemsOf(block) \o << << >> >>])

\* Blogs' useState of form and openModal() for a new blog
NewBlogForm ==
  [heading |-> << >>, description |-> << << >> >>, slug |-> << >>,
   content |-> << >>]

\* Blogs' openModal(b)
openModal(b) ==
  IF b = Undefined
  THEN [editing |-> Null, form |-> NewBlogForm]
  ELSE [editing |-> b,
        form |-> [heading |-> b.heading,
                  description |-> orBlank(listOr(b, "description")),
                  slug |-> b.slug,
                  content |-> listOr(b, "content")]]

updateForm(fm, key, value) == [fm EXCEPT ![key] = value]

\* the heading field's onChange
onChangeHeading(fm, heading, now) ==
  [fm EXCEPT !.heading = heading, !.slug = genSlugWithTimestamp(heading, now)]

\* the description's paragraph handlers
descriptionChange(fm, i, value) ==
  updateForm(fm, "description", withEntry(fm.description, i, value))
descriptionRemove(fm, i) ==
  updateForm(fm, "description", orBlank(without(fm.description, i)))
descriptionAdd(fm) ==
  updateForm(fm, "description", fm.description \o << << >> >>)

\* the content's handlers: + Add block, and BlockEditor's onChange, onRemove
addBlock(fm, sel) == updateForm(fm, "content", Append(fm.content, emptyBlock(sel)))
onChangeBlock(fm, idx, nb) ==
  updateForm(fm, "content", withEntry(fm.content, idx, nb))
onRemoveBlock(fm, idx) == updateForm(fm, "content", without(fm.content, idx))

\* moveBlock that writes the moved block over its neighbour
moveBlock_overwrite(fm, idx, dir) ==
  LET swap == idx + dir
  IN  IF swap < 0 \/ swap >= Len(fm.content) THEN fm
      ELSE updateForm(fm, "content",
                      [fm.content EXCEPT ![swap + 1] = fm.content[idx + 1]])

\* Blogs' moveBlock(idx, dir)
moveBlock(fm, idx, dir) ==
  LET swap == idx + dir
  IN  IF swap < 0 \/ swap >= Len(fm.content) THEN fm
      ELSE updateForm(fm, "content",
                      [fm.content EXCEPT ![idx + 1] = fm.content[swap + 1],
                                            ![swap + 1] = fm.content[idx + 1]])

\* Blogs' onSave up to the call of updateBlog or createBlog: the payload is
\* built from the form of this render, the slug set by updateForm reaches
\* the form of the next one
onSave(fm) ==
  IF trim(fm.heading) = << >>
  THEN [sent |-> FALSE, toast |-> "Heading is required", form |-> fm]
  ELSE [sent |-> TRUE,
        payload |-> [fm EXCEPT !.description = trimmedEntries(@)],
        form |-> IF trim(fm.slug) = << >>
                 THEN updateForm(fm, "slug", genSlug(fm.heading))
                 ELSE fm]

(***************************************************************************)
(* The state of the running dashboard.                                     *)
(***************************************************************************)
VARIABLES
  storage,    \* localStorage
  location,   \* window.location: [pathname, search]
  navTarget,  \* the href assigned to window.location.href, << >> when none
  calls,      \* the calls of request awaiting fetch, a bag
  user,       \* AuthProvider's user state
  isLoading,  \* AuthProvider's isLoading state
  pageLoads,  \* page loads so far
  session,    \* history: the token of the last completed login, Null when
              \* a 401 or a logout ended it
  last,       \* history: what the last step did
  bu,         \* a call of buildUrl: [path, qs, called, url]
  ui,         \* the view AppContent renders and every component's toasts
  form        \* the edit form of the section on screen, with a history
              \* of the handler that last ran on it

appVars ==
  <<storage, location, navTarget, calls, user, isLoading, pageLoads, session, last>>
vars == <<appVars, bu, ui, form>>

isAuthenticated == isAuthenticatedOf(user)

\* the pages the dashboard may be opened at
Locations ==
  { [pathname |-> <<"/">>, search |-> << >>],
    [pathname |-> <<"/", "a">>, search |-> <<"?", "b", "=", "1">>] }

\* what the server may answer
Statuses == {200, 204, 401, 404, 500}
ContentTypes == { <<"application/json", "; charset=utf-8">>, <<"text/plain">>, << >> }
Bodies ==
  { "", "Not found", "42", "true", "null", "\"hi\"",
    "{\"message\":\"Not found\"}", "{\"message\":\"\"}",
    JSONStringify(LoginTokenOnly) }
Responses == [status : Statuses, ct : ContentTypes, body : Bodies]

\* the answers that matter to the session: the sign-in responses, an
\* authentication failure and another failure
SessionResponses ==
  [status : {200}, ct : {<<"application/json", "; charset=utf-8">>},
   body : {JSONStringify(LoginTokenOnly), JSONStringify(LoginBoth),
           JSONStringify(LoginGuest)}]
  \cup [status : {401, 404}, ct : {<<"application/json", "; charset=utf-8">>},
        body : {"{\"message\":\"Not found\"}"}]

\* what fetch may throw: a TypeError, or a value that carries a status
TransportErrors ==
  { Obj([name |-> Str("TypeError"), message |-> Str("Failed to fetch")]),
    Obj([message |-> Str("Unauthorized"), status |-> Num(401)]),
    Obj([message |-> Str("Bad gateway"), status |-> Num(502)]) }

\* the headers a caller of request may pass
CallerHeaders ==
  { NoHeaders,
    [k \in {"Authorization"} |-> "Bearer other"],
    [k \in {"Content-Type"} |-> "text/plain"] }

\* no call of buildUrl under observation
BuIdle ==
  [path |-> << >>, qs |-> [given |-> FALSE, entries |-> << >>],
   called |-> FALSE, url |-> << >>]

InitAt(locs) ==
  /\ bu = BuIdle
  /\ ui = NoView
  /\ form = NoForm
  /\ storage = EmptyStorage
  /\ location \in locs
  /\ navTarget = << >>
  /\ calls = EmptyBag
  /\ user = Null
  /\ isLoading = TRUE
  /\ pageLoads = 0
  /\ session = Null
  /\ last = [op |-> "init"]

\* AuthProvider's useEffect on mount
ProviderMount ==
  /\ isLoading
  /\ LET m == mountEffect(storage, user)
     IN  /\ storage' = m.storage
         /\ user' = m.user
         /\ session' = IF Nullish(getItem(m.storage, TOKEN_KEY)) THEN Null ELSE session
  /\ isLoading' = FALSE
  /\ last' = [op |-> "mount", tokenBefore |-> token(storage),
              before |-> [storage |-> storage, user |-> user]]
  /\ UNCHANGED <<form, location, navTarget, calls, pageLoads, bu, ui>>

\* a client that sends nothing when an identical call is in flight
fetchCall_dedup(cs, call) == SetToBag(BagToSet(cs) \cup {call})

\* `await fetch(url, config)`: one more call in flight, whatever is in flight
fetchCall(cs, call) == cs (+) SetToBag({call})

\* a client that sends a failed call again
fetchSettled_retry(cs, call, req) ==
  IF req.threw THEN cs ELSE cs (-) SetToBag({call})

\* the calls in flight once fetch settled for call and request ran to its
\* end with req: request returns or throws, it has no loop and no second fetch
fetchSettled(cs, call, req) == cs (-) SetToBag({call})

\* request(path, {headers}) up to and including the call of fetch, with at
\* most cap calls in flight
Issue(kind, headers, cap) ==
  /\ ~isLoading
  /\ BagCardinality(calls) < cap
  /\ LET sent == requestHeaders(storage, headers)
         call == [kind |-> kind,
                  auth |-> IF "Authorization" \in DOMAIN sent
                             THEN Str(sent["Authorization"]) ELSE Undefined]
     IN  /\ calls' = fetchCall(calls, call)
         /\ last' = [op |-> "issue", call |-> call, caller |-> headers,
                     headers |-> sent, tokenAt |-> token(storage),
                     sessionAt |-> session, inFlight |-> calls]
  /\ UNCHANGED <<form, storage, location, navTarget, user, isLoading, pageLoads, session,
                 bu, ui>>

\* a caller of request that passes headers of its own
IssueRequest(cap) == \E headers \in CallerHeaders : Issue("request", headers, cap)
\* a typed wrapper (getCategories, createProduct, ...) called by a view: no
\* headers; AppContent renders the views only while isAuthenticated
IssueWrapper(cap) == isAuthenticated /\ Issue("request", NoHeaders, cap)
\* apiService.login(email, password) called directly
IssueLogin(cap) == Issue("login", NoHeaders, cap)
\* apiService.register(name, email, password)
IssueRegister(cap) == Issue("register", NoHeaders, cap)
\* LoginPage.handleSubmit -> AuthProvider.login -> apiService.login;
\* AppContent renders the LoginPage only while not isAuthenticated
IssueCtxLogin(cap) == ~isAuthenticated /\ Issue("ctxLogin", NoHeaders, cap)
\* the same, with what handleSubmit does once login settled (its toasts)
IssuePageLogin(cap) ==
  /\ ~isAuthenticated
  /\ Len(ui.toasts["LoginPage"]) < MaxLoginTries
  /\ Issue("pageLogin", NoHeaders, cap)

\* fetch settles for a call: request runs to its end, and with it the
\* wrappers awaiting it (their continuations run in the same turn)
afterRequest(kind, req, u) ==
  CASE kind = "request" -> [threw |-> req.threw, val |-> req.val,
                            env |-> req.env, user |-> u]
    [] kind = "login" ->
         [threw |-> login(req).threw, val |-> login(req).val,
          env |-> login(req).env, user |-> u]
    [] kind = "register" ->
         [threw |-> register(req).threw, val |-> register(req).val,
          env |-> register(req).env, user |-> u]
    [] kind \in {"ctxLogin", "pageLogin"} -> ctxLogin(login(req), u)

Settle(call, net) ==
  \E req \in {request(net, [storage |-> storage, loc |-> location,
                            hrefs |-> << >>])} :
  \E fin \in {afterRequest(call.kind, req, user)} :
  \E tokenOf \in {IF req.threw THEN Undefined ELSE Get(req.val, "token")} :
      /\ storage' = fin.env.storage
      /\ navTarget' = IF req.env.hrefs # << >>
                        THEN req.env.hrefs[Len(req.env.hrefs)] ELSE navTarget
      /\ user' = fin.user
      /\ calls' = fetchSettled(calls, call, req)
      /\ session' = IF req.env.hrefs # << >> THEN Null
                    ELSE IF call.kind # "request" /\ ~req.threw /\ ~Nullish(req.val)
                      THEN (IF tokenOf.t = "string" THEN tokenOf ELSE Null)
                      ELSE session
      /\ last' = [op |-> "settle", call |-> call, net |-> net,
                  before |-> [storage |-> storage, loc |-> location,
                              user |-> user, calls |-> calls],
                  req |-> req,
                  fin |-> [threw |-> fin.threw, val |-> fin.val]]
      /\ ui' = afterSubmit(call.kind, fin, ui)
      /\ UNCHANGED <<form, location, isLoading, pageLoads, bu>>

SettleResponse(responses) ==
  \E call \in BagToSet(calls), response \in responses :
    Settle(call, [threw |-> FALSE, response |-> response])

SettleThrow(errors) ==
  \E call \in BagToSet(calls), error \in errors :
    Settle(call, [threw |-> TRUE, error |-> error])

\* the Sidebar's logout button
Logout ==
  /\ ~isLoading
  /\ isAuthenticated
  /\ storage' = logout(storage)
  /\ user' = Null
  /\ session' = Null
  /\ last' = [op |-> "logout", tokenBefore |-> token(storage),
              before |-> [storage |-> storage, user |-> user]]
  /\ UNCHANGED <<form, location, navTarget, calls, isLoading, pageLoads, bu, ui>>

\* the href assigned to window.location, as the location of the new page
RECURSIVE PathOf(_)
PathOf(h) == IF h = << >> \/ Head(h) = "?" THEN << >> ELSE <<Head(h)>> \o PathOf(Tail(h))
ParseHref(h) ==
  LET path == PathOf(h)
      rest == SubSeq(h, Len(path) + 1, Len(h))
  IN  [pathname |-> path, search |-> IF rest = <<"?">> THEN << >> ELSE rest]

\* the navigation started by a 401 commits: the document is replaced, the
\* fetches in flight are dropped and the application starts again
PageLoad ==
  /\ navTarget # << >>
  /\ pageLoads < MaxPageLoads
  /\ location' = ParseHref(navTarget)
  /\ navTarget' = << >>
  /\ calls' = EmptyBag
  /\ user' = Null
  /\ isLoading' = TRUE
  /\ pageLoads' = pageLoads + 1
  /\ ui' = NoView
  /\ last' = [op |-> "load"]
  /\ UNCHANGED <<form, storage, session, bu>>

\* the Sidebar's onSectionChange: AppContent renders the section's view, whose
\* mount effect fetches its list
OpenView ==
  /\ ~isLoading
  /\ isAuthenticated
  /\ ui.section = "none"
  /\ \E section \in ViewSections : ui' = mountView(section, ui.toasts)
  /\ last' = [op |-> "openView", before |-> ui]
  /\ UNCHANGED <<form, storage, location, navTarget, calls, user, isLoading, pageLoads,
                 session, bu>>

\* a create, update, delete, restore or toggle of the rendered view; while
\* loading the view renders its spinner only
StartMutation ==
  /\ ~isLoading
  /\ isAuthenticated
  /\ ui.section # "none"
  /\ hasMutations(ui.section)
  /\ ~ui.loading
  /\ ui.started < MaxMutations
  /\ ui' = startMutation(ui)
  /\ last' = [op |-> "startMutation", before |-> ui]
  /\ UNCHANGED <<form, storage, location, navTarget, calls, user, isLoading, pageLoads,
                 session, bu>>

\* fetch settles for a call of a view's handler: request runs to its end,
\* then the handler awaiting it
ViewSettle(responses) ==
  /\ ui.section # "none"
  /\ \E op \in ui.ops, response \in responses :
     \E part \in op.pending :
     \E req \in {request([threw |-> FALSE, response |-> response],
                         [storage |-> storage, loc |-> location,
                          hrefs |-> << >>])} :
       /\ storage' = req.env.storage
       /\ navTarget' = IF req.env.hrefs # << >>
                         THEN req.env.hrefs[Len(req.env.hrefs)] ELSE navTarget
       /\ session' = IF req.env.hrefs # << >> THEN Null ELSE session
       /\ ui' = IF op.type = "fetch" THEN settleFetch(ui, op, part, req)
                                     ELSE settleMutation(ui, op, req)
       /\ last' = [op |-> "viewSettle", vop |-> op, part |-> part,
                   response |-> response,
                   req |-> [threw |-> req.threw, val |-> req.val],
                   before |-> ui]
       /\ UNCHANGED <<form, location, calls, user, isLoading, pageLoads, bu>>

\* a Toast's timer or close button: ToastContainer renders a Toast for each
\* toast of the list AppContent hands it
ToastClose ==
  /\ ~isLoading
  /\ \E id \in 1..Len(renderedToasts(ui.toasts)) :
       ui' = [ui EXCEPT !.toasts["AppContent"] = removeToast(@, id)]
  /\ last' = [op |-> "toastClose", before |-> ui]
  /\ UNCHANGED <<form, storage, location, navTarget, calls, user, isLoading, pageLoads,
                 session, bu>>

\* The dashboard: calls in flight together, the answers that matter to the
\* session.
Init == InitAt({[pathname |-> <<"/">>, search |-> << >>]})

Next ==
  \/ ProviderMount
  \/ IssueWrapper(MaxCalls)
  \/ IssueCtxLogin(MaxCalls)
  \/ SettleResponse(SessionResponses)
  \/ SettleThrow({TypeError})
  \/ Logout
  \/ PageLoad

Spec == Init /\ [][Next]_vars

\* The gateway client, one call at a time, against every answer of the
\* server and every failure of the transport.
InitGateway == InitAt(Locations)

NextGateway ==
  \/ ProviderMount
  \/ IssueRequest(1)
  \/ IssueLogin(1)
  \/ IssueRegister(1)
  \/ SettleResponse(Responses)
  \/ SettleThrow(TransportErrors)
  \/ PageLoad

SpecGateway == InitGateway /\ [][NextGateway]_vars

(***************************************************************************)
(* buildUrl on its own: every path and query mapping of the bounds, with   *)
(* and without a stored token.                                             *)
(***************************************************************************)
Paths == { << >>, <<"x">>, <<"/", "x">>, <<"/", "a", "/", "b">> }
QsKeys == { <<"a">>, <<"b">>, <<"p", "q">> }
QsValues ==
  { Undefined, Null, Num(0), Num(12), Bool(FALSE),
    [t |-> "string", v |-> << >>],
    [t |-> "string", v |-> <<"x", " ", "&">>] }
QsEntries ==
  { e \in UNION { [1..n -> QsKeys \X QsValues] : n \in 0..MaxQsLen } :
      \A i, j \in DOMAIN e : i # j => e[i][1] # e[j][1] }
QsInputs ==
  { [given |-> FALSE, entries |-> << >>] }
  \cup { [given |-> TRUE, entries |-> e] : e \in QsEntries }

InitUrl ==
  /\ bu \in [path : Paths, qs : QsInputs, called : {FALSE}, url : {<< >>}]
  /\ ui = NoView
  /\ form = NoForm
  /\ storage \in {EmptyStorage, [EmptyStorage EXCEPT ![TOKEN_KEY] = Str("t1")]}
  /\ location = [pathname |-> <<"/">>, search |-> << >>]
  /\ navTarget = << >>
  /\ calls = EmptyBag
  /\ user = Null
  /\ isLoading = FALSE
  /\ pageLoads = 0
  /\ session = Null
  /\ last = [op |-> "init"]

CallBuildUrl ==
  /\ ~bu.called
  /\ bu' = [bu EXCEPT !.called = TRUE, !.url = buildUrl(bu.path, bu.qs)]
  /\ last' = [op |-> "buildUrl", storageBefore |-> storage]
  /\ UNCHANGED <<form, storage, location, navTarget, calls, user, isLoading, pageLoads,
                 session, ui>>

NextUrl == CallBuildUrl

SpecUrl == InitUrl /\ [][NextUrl]_vars

(***************************************************************************)
(* The views: a sign-in on the LoginPage, then one list view with its      *)
(* fetches and mutations in flight together, up to the moment a navigation *)
(* started by a 401 replaces the page.                                     *)
(***************************************************************************)
JsonCt == <<"application/json", "; charset=utf-8">>
\* the answers to a sign-in
ViewLoginResponses ==
  { [status |-> 200, ct |-> JsonCt, body |-> JSONStringify(LoginBoth)],
    [status |-> 404, ct |-> JsonCt, body |-> "{\"message\":\"Not found\"}"] }
\* the answers to a view's call: the list, a failure, an expired session
ViewResponses ==
  { [status |-> 200, ct |-> JsonCt, body |-> "[]"],
    [status |-> 500, ct |-> JsonCt, body |-> "{\"message\":\"Not found\"}"],
    [status |-> 401, ct |-> JsonCt, body |-> "{\"message\":\"Not found\"}"] }

InitView == InitAt({[pathname |-> <<"/">>, search |-> << >>]})

NextView ==
  \/ ProviderMount
  \/ IssuePageLogin(1)
  \/ SettleResponse(ViewLoginResponses)
  \/ OpenView
  \/ StartMutation
  \/ ViewSettle(ViewResponses)

SpecView == InitView /\ [][NextView]_vars

(***************************************************************************)
(* Start-up: the auth provider's mount effect on whatever an earlier visit *)
(* left in localStorage, then the Sidebar's logout.                        *)
(***************************************************************************)
StoredTokens == {Null, Str("t1"), Str("undefined"), Str("")}
StoredUserData ==
  {Null, Str(JSONStringify(AdminUser)), Str(JSONStringify(GuestUser)),
   Str("null"), Str("Not found"), Str("")}
StoredRefreshTokens == {Null, Str("r1")}

InitMount ==
  /\ storage \in {st \in [StorageKeys -> StoredTokens \cup StoredUserData
                                          \cup StoredRefreshTokens] :
                    /\ st["authToken"] \in StoredTokens
                    /\ st["userData"] \in StoredUserData
                    /\ st["refreshToken"] \in StoredRefreshTokens}
  /\ bu = BuIdle
  /\ ui = NoView
  /\ form = NoForm
  /\ location \in Locations
  /\ navTarget = << >>
  /\ calls = EmptyBag
  /\ user = Null
  /\ isLoading = TRUE
  /\ pageLoads = 0
  /\ session = Null
  /\ last = [op |-> "init"]

NextMount ==
  \/ ProviderMount
  \/ Logout

SpecMount == InitMount /\ [][NextMount]_vars

(***************************************************************************)
(* The edit forms.  form holds the React state of the section's form and,  *)
(* in op, the handler that ran last with what it was given and what it     *)
(* produced.  The list view around the form is left out.  Each             *)
(* specification follows the fields of one concern of a form.              *)
(***************************************************************************)
InitForm(closed) ==
  /\ form \in closed
  /\ bu = BuIdle
  /\ ui = NoView
  /\ storage = [EmptyStorage EXCEPT ![TOKEN_KEY] = Str("t1")]
  /\ location = [pathname |-> <<"/">>, search |-> << >>]
  /\ navTarget = << >>
  /\ calls = EmptyBag
  /\ user = AdminUser
  /\ isLoading = FALSE
  /\ pageLoads = 0
  /\ session = Str("t1")
  /\ last = [op |-> "init"]

formFrame == UNCHANGED <<appVars, bu, ui>>

(***************************************************************************)
(* The product form and its price.                                         *)
(***************************************************************************)
\* the prices of the products the list shows, in paise: small amounts,
\* shop prices, and amounts just below 2^51 and just below 2^52
ShopPrices == {199, 1999, 9999, 12345}
Prices ==
  { integer(n) : n \in (0..MaxPaise) \cup ShopPrices }
  \cup { numberOf(Ones(41) \o digits(1023 - k, 10)) : k \in 0..MaxOffset }
  \cup { numberOf(Ones(42) \o digits(1023 - k, 10)) : k \in 0..MaxOffset }
ProductsOnServer ==
  [name : {<<"a">>}, category : {Str("c1"), Undefined},
   pricePaise : Prices \cup {Undefined}]

ProductsClosed ==
  [section |-> "Products", isModalOpen |-> FALSE, editingProduct |-> Null,
   formData |-> NewProductForm, touched |-> FALSE, op |-> [name |-> "none"]]

\* Add Product, or Edit on a row of the table
OpenProductModal ==
  /\ form.section = "Products"
  /\ ~form.isModalOpen
  /\ \E product \in ProductsOnServer \cup {Undefined} :
       \E h \in {handleOpenModal(product)} :
         form' = [form EXCEPT !.isModalOpen = TRUE,
                              !.editingProduct = h.editingProduct,
                              !.formData = h.formData,
                              !.touched = FALSE,
                              !.op = [name |-> "handleOpenModal"]]
  /\ formFrame

\* typing into the price field
ChangePrice ==
  /\ form.section = "Products"
  /\ form.isModalOpen
  /\ \E text \in PriceTexts :
       form' = [form EXCEPT !.formData = onChangePrice(@, text),
                            !.touched = TRUE,
                            !.op = [name |-> "onChangePrice", text |-> text]]
  /\ formFrame

\* the form's onSubmit
SubmitProduct ==
  /\ form.section = "Products"
  /\ form.isModalOpen
  /\ \E r \in {handleSubmit(form.formData)} :
       form' = [form EXCEPT !.op = [name |-> "handleSubmit", result |-> r]]
  /\ formFrame

\* handleCloseModal, by the user or after a save
CloseProductModal ==
  /\ form.section = "Products"
  /\ form.isModalOpen
  /\ form' = [form EXCEPT !.isModalOpen = FALSE, !.editingProduct = Null,
                          !.op = [name |-> "handleCloseModal"]]
  /\ formFrame

InitPrice == InitForm({ProductsClosed})

NextPrice ==
  \/ OpenProductModal
  \/ ChangePrice
  \/ SubmitProduct
  \/ CloseProductModal

SpecPrice == InitPrice /\ [][NextPrice]_vars

(***************************************************************************)
(* The blog form: heading and slug.                                        *)
(***************************************************************************)
\* every text of the bound over the alphabet
Texts == UNION { [1..n -> Chars] : n \in 0..MaxTextLen }
\* what Date.now() may return
Timestamps == {"1762300000001", "1762300000002"}

BlogsClosed ==
  [section |-> "Blogs", isModalOpen |-> FALSE, editing |-> Null,
   form |-> NewBlogForm, op |-> [name |-> "none"]]

\* the blogs of the list whose heading and slug matter
SlugBlogs ==
  { [heading |-> <<"a">>, slug |-> <<"1762200000000", "-", "a">>,
     description |-> << <<"a">> >>, content |-> << >>] }

\* Add Blog, or Edit on a row of the table
OpenBlogModal(blogs) ==
  /\ form.section = "Blogs"
  /\ ~form.isModalOpen
  /\ \E b \in blogs \cup {Undefined} :
       \E h \in {openModal(b)} :
         form' = [form EXCEPT !.isModalOpen = TRUE, !.editing = h.editing,
                              !.form = h.form, !.op = [name |-> "openModal"]]
  /\ formFrame

\* typing into the heading field
ChangeHeading ==
  /\ form.section = "Blogs"
  /\ form.isModalOpen
  /\ \E heading \in Texts, now \in Timestamps :
       form' = [form EXCEPT !.form = onChangeHeading(@, heading, now),
                            !.op = [name |-> "onChangeHeading"]]
  /\ formFrame

\* the form's onSubmit
SaveBlog ==
  /\ form.section = "Blogs"
  /\ form.isModalOpen
  /\ \E r \in {onSave(form.form)} :
       form' = [form EXCEPT !.form = r.form,
                            !.op = [name |-> "onSave", before |-> form.form,
                                    result |-> r]]
  /\ formFrame

\* closeModal, by the user or after a save
CloseBlogModal ==
  /\ form.section = "Blogs"
  /\ form.isModalOpen
  /\ form' = [form EXCEPT !.isModalOpen = FALSE, !.editing = Null,
                          !.op = [name |-> "closeModal"]]
  /\ formFrame

InitBlogSlug == InitForm({BlogsClosed})

NextBlogSlug ==
  \/ OpenBlogModal(SlugBlogs)
  \/ ChangeHeading
  \/ SaveBlog
  \/ CloseBlogModal

SpecBlogSlug == InitBlogSlug /\ [][NextBlogSlug]_vars

(***************************************************************************)
(* The blog form: the order of the content blocks.                         *)
(***************************************************************************)
\* the block types chosen in the select next to + Add block
AddableTypes == {"section", "image", "quote"}

\* a blog of the list with content
BlockBlogs ==
  { [heading |-> <<"a">>, slug |-> <<"1762200000000", "-", "a">>,
     description |-> << <<"a">> >>,
     content |-> <<emptyBlock("html"), emptyBlock("markdown")>>] }

\* the move that ran last, without the one before it
lastMove ==
  IF form.op.name = "moveBlock"
  THEN [name |-> "moveBlock", idx |-> form.op.idx, dir |-> form.op.dir,
        before |-> form.op.before]
  ELSE [name |-> "none"]

\* + Add block
AddBlock ==
  /\ form.section = "Blogs"
  /\ form.isModalOpen
  /\ Len(form.form.content) < MaxBlocks
  /\ \E sel \in AddableTypes :
       form' = [form EXCEPT !.form = addBlock(@, sel),
                            !.op = [name |-> "addBlock"]]
  /\ formFrame

\* a block's Remove block button
RemoveBlock ==
  /\ form.section = "Blogs"
  /\ form.isModalOpen
  /\ \E idx \in 0..(Len(form.form.content) - 1) :
       form' = [form EXCEPT !.form = onRemoveBlock(@, idx),
                            !.op = [name |-> "onRemove", idx |-> idx]]
  /\ formFrame

\* moveBlock(idx, dir) for a block of the content; the Move up button of
\* the first block and the Move down button of the last are disabled
MoveBlock ==
  /\ form.section = "Blogs"
  /\ form.isModalOpen
  /\ \E idx \in 0..(Len(form.form.content) - 1), dir \in {-1, 1} :
       form' = [form EXCEPT
                  !.form = moveBlock(@, idx, dir),
                  !.op = [name |-> "moveBlock", idx |-> idx, dir |-> dir,
                          enabled |-> IF dir = -1 THEN idx > 0
                                      ELSE idx < Len(form.form.content) - 1,
                          before |-> form.form,
                          origin |-> IF form.op.name = "moveBlock"
                                     THEN form.op.origin
                                     ELSE form.form.content,
                          prev |-> lastMove]]
  /\ formFrame

InitBlocks == InitForm({BlogsClosed})

NextBlocks ==
  \/ OpenBlogModal(BlockBlogs)
  \/ AddBlock
  \/ RemoveBlock
  \/ MoveBlock
  \/ CloseBlogModal

SpecBlocks == InitBlocks /\ [][NextBlocks]_vars

(***************************************************************************)
(* The recipe form: title and slug.                                        *)
(***************************************************************************)
RecipesClosed ==
  [section |-> "Recipes", isDrawerOpen |-> FALSE, editing |-> Null,
   form |-> NewRecipeForm, slugEdited |-> FALSE, op |-> [name |-> "none"]]

\* the recipes of the list whose title and slug matter
SlugRecipes ==
  { [title |-> <<"a">>, slug |-> <<"a">>, ingredients |-> << <<"a">> >>,
     steps |-> << <<"a">> >>] }

\* Add Recipe, or Edit on a row of the table
OpenRecipeDrawer(recipes) ==
  /\ form.section = "Recipes"
  /\ ~form.isDrawerOpen
  /\ \E r \in recipes \cup {Undefined} :
       \E h \in {openDrawer(r)} :
         form' = [form EXCEPT !.isDrawerOpen = TRUE, !.editing = h.editing,
                              !.form = h.form, !.slugEdited = FALSE,
                              !.op = [name |-> "openDrawer"]]
  /\ formFrame

\* what a key press turns a text into: a character more, or one less
Typed(text) ==
  { Append(text, c) : c \in IF Len(text) < MaxTextLen THEN Chars ELSE {} }
  \cup { SubSeq(text, 1, Len(text) - 1) : n \in IF text = << >> THEN {} ELSE {1} }

\* typing into the title field
ChangeTitle ==
  /\ form.section = "Recipes"
  /\ form.isDrawerOpen
  /\ \E title \in Typed(form.form.title) :
       form' = [form EXCEPT !.form = onChangeTitle(@, title),
                            !.op = [name |-> "onChangeTitle"]]
  /\ formFrame

\* typing into the slug field
SlugTexts == {<< >>, <<"a">>, <<"B", " ", "1">>}
ChangeSlug ==
  /\ form.section = "Recipes"
  /\ form.isDrawerOpen
  /\ \E text \in SlugTexts :
       form' = [form EXCEPT
                  !.form = onChangeField(@, "slug", generateSlug(text)),
                  !.slugEdited = TRUE,
                  !.op = [name |-> "onChangeField"]]
  /\ formFrame

\* the form's onSubmit
SubmitRecipe ==
  /\ form.section = "Recipes"
  /\ form.isDrawerOpen
  /\ form' = [form EXCEPT !.op = [name |-> "onSubmit",
                                  payload |-> onSubmit(form.form)]]
  /\ formFrame

\* closeDrawer, by the user or after a save
CloseRecipeDrawer ==
  /\ form.section = "Recipes"
  /\ form.isDrawerOpen
  /\ form' = [form EXCEPT !.isDrawerOpen = FALSE, !.editing = Null,
                          !.op = [name |-> "closeDrawer"]]
  /\ formFrame

InitRecipeSlug == InitForm({RecipesClosed})

NextRecipeSlug ==
  \/ OpenRecipeDrawer(SlugRecipes)
  \/ ChangeTitle
  \/ ChangeSlug
  \/ SubmitRecipe
  \/ CloseRecipeDrawer

SpecRecipeSlug == InitRecipeSlug /\ [][NextRecipeSlug]_vars

(***************************************************************************)
(* The editable lists of the blog and recipe forms.                        *)
(***************************************************************************)
\* what is typed into an entry
EntryTexts == {<<"a">>}

\* blogs of the list: one whose content has a section and a list block, and
\* one whose section block came without a body
ListBlogs ==
  { [heading |-> <<"a">>, slug |-> <<"1762200000000", "-", "a">>,
     description |-> << <<"a">>, <<"b">> >>,
     content |-> << [type |-> "section", subheading |-> << >>,
                     body |-> << <<"a">>, <<"b">> >>],
                    [type |-> "list",
                     list |-> [ordered |-> TRUE, items |-> << <<"b">> >>]] >>],
    [heading |-> <<"b">>, slug |-> <<"1762200000000", "-", "b">>,
     content |-> << [type |-> "section", subheading |-> << >>] >>] }

ListRecipes ==
  { [title |-> <<"a">>, slug |-> <<"a">>,
     ingredients |-> << <<"a">>, <<"b">> >>, steps |-> << >>] }

\* the editable lists the open form shows
EditableLists ==
  IF form.section = "Recipes"
  THEN { [kind |-> k] : k \in {"ingredients", "steps"} }
  ELSE { [kind |-> "description"] }
       \cup { [kind |-> "body", idx |-> i - 1] :
                i \in {j \in DOMAIN form.form.content :
                         form.form.content[j].type = "section"} }
       \cup { [kind |-> "items", idx |-> i - 1] :
                i \in {j \in DOMAIN form.form.content :
                         form.form.content[j].type = "list"} }

\* the entries of an editable list as the form renders them
listAt(fm, loc) ==
  CASE loc.kind = "body" -> bodyOf(fm.content[loc.idx + 1])
    [] loc.kind = "items" -> itemsOf(fm.content[loc.idx + 1])
    [] OTHER -> fm[loc.kind]

\* the list's + Add button
addEntry(fm, loc) ==
  CASE loc.kind = "description" -> descriptionAdd(fm)
    [] loc.kind = "body" -> onChangeBlock(fm, loc.idx, bodyAdd(fm.content[loc.idx + 1]))
    [] loc.kind = "items" -> onChangeBlock(fm, loc.idx, itemsAdd(fm.content[loc.idx + 1]))
    [] OTHER -> addArrayItem(fm, loc.kind)

\* the Remove button of entry i
removeEntry(fm, loc, i) ==
  CASE loc.kind = "description" -> descriptionRemove(fm, i)
    [] loc.kind = "body" ->
         onChangeBlock(fm, loc.idx, bodyRemove(fm.content[loc.idx + 1], i))
    [] loc.kind = "items" ->
         onChangeBlock(fm, loc.idx, itemsRemove(fm.content[loc.idx + 1], i))
    [] OTHER -> removeArrayItem(fm, loc.kind, i)

\* typing into entry i
changeEntry(fm, loc, i, value) ==
  CASE loc.kind = "description" -> descriptionChange(fm, i, value)
    [] loc.kind = "body" ->
         onChangeBlock(fm, loc.idx, bodyChange(fm.content[loc.idx + 1], i, value))
    [] loc.kind = "items" ->
         onChangeBlock(fm, loc.idx, itemsChange(fm.content[loc.idx + 1], i, value))
    [] OTHER -> updateArrayField(fm, loc.kind, i, value)

FormOpen ==
  \/ form.section = "Blogs" /\ form.isModalOpen
  \/ form.section = "Recipes" /\ form.isDrawerOpen

AddItem ==
  /\ FormOpen
  /\ \E loc \in EditableLists :
       /\ Len(listAt(form.form, loc)) < MaxItems
       /\ form' = [form EXCEPT !.form = addEntry(@, loc),
                               !.op = [name |-> "add", list |-> loc,
                                       before |-> form.form]]
  /\ formFrame

RemoveItem ==
  /\ FormOpen
  /\ \E loc \in EditableLists :
       \E i \in 0..(Len(listAt(form.form, loc)) - 1) :
         form' = [form EXCEPT !.form = removeEntry(@, loc, i),
                              !.op = [name |-> "remove", list |-> loc,
                                      idx |-> i, before |-> form.form]]
  /\ formFrame

ChangeItem ==
  /\ FormOpen
  /\ \E loc \in EditableLists :
       \E i \in 0..(Len(listAt(form.form, loc)) - 1), value \in EntryTexts :
         form' = [form EXCEPT !.form = changeEntry(@, loc, i, value),
                              !.op = [name |-> "change", list |-> loc,
                                      idx |-> i, before |-> form.form]]
  /\ formFrame

InitLists == InitForm({BlogsClosed, RecipesClosed})

NextLists ==
  \/ OpenBlogModal(ListBlogs)
  \/ OpenRecipeDrawer(ListRecipes)
  \/ AddItem
  \/ RemoveItem
  \/ ChangeItem

SpecLists == InitLists /\ [][NextLists]_vars


(***************************************************************************)
(* Properties.  last describes the step just taken: for a settled call,    *)
(* last.net is what fetch did, last.before the storage and location the    *)
(* handler found, last.req what request did and the environment it left.   *)
(***************************************************************************)
Settled == last.op = "settle"
SettledResponse == Settled /\ ~last.net.threw
SettledThrow == Settled /\ last.net.threw
Issued == last.op = "issue"

\* the redirect of a 401 handled at the location the handler found
ExpectedRedirect == loginRedirect(last.before.loc)
\* every assignment to window.location.href in the step was that redirect
RedirectedToLogin ==
  /\ last.req.env.hrefs # << >>
  /\ \A i \in 1..Len(last.req.env.hrefs) : last.req.env.hrefs[i] = ExpectedRedirect
  /\ navTarget = ExpectedRedirect
NoNavigation == last.req.env.hrefs = << >>

\* C1: a call of request whose response has status 401 leaves no session
\* token in storage when it settles, whatever the content-type and body.
C1_Status401ClearsToken ==
  (SettledResponse /\ last.net.response.status = 401)
    => storage[TOKEN_KEY] = Null

\* C2: once a login completed with a response that contains a token, that
\* token is the stored session token, and every request issued while that
\* session lasts carries Authorization: Bearer <that token>.
C2_LoginTokenIsCarried ==
  /\ (/\ Settled
      /\ last.call.kind \in {"login", "ctxLogin"}
      /\ ~last.fin.threw
      /\ Get(last.req.val, "token").t = "string")
       => storage[TOKEN_KEY] = Get(last.req.val, "token")
  /\ (/\ Issued
      /\ last.sessionAt # Null
      /\ "Authorization" \notin DOMAIN last.caller)
       => /\ "Authorization" \in DOMAIN last.headers
          /\ last.headers["Authorization"] = "Bearer " \o last.sessionAt.v

\* C3: the headers request sends keep the bearer Authorization header of the
\* stored token whatever headers the caller passes, while a caller's
\* Content-Type replaces the default application/json.
C3_CallerHeadersKeepAuth ==
  Issued =>
    /\ Truthy(last.tokenAt)
         => /\ "Authorization" \in DOMAIN last.headers
            /\ last.headers["Authorization"] = "Bearer " \o last.tokenAt.v
    /\ last.headers["Content-Type"] =
         IF "Content-Type" \in DOMAIN last.caller
           THEN last.caller["Content-Type"] ELSE "application/json"

\* the value of the body as JSON has a message field the code can use
HasUsableMessage(j) ==
  ~j.threw /\ j.val.t = "object" /\ "message" \in DOMAIN j.val.f
  /\ Truthy(j.val.f["message"])

\* C4: a non-success response whose body is JSON with a (usable) message
\* field fails with {message: that field, status: the status code}; a JSON
\* body with no usable message that is not a string fails with the message
\* "An error occurred".
C4_ErrorMessageFromBody ==
  (SettledResponse /\ ~Ok(last.net.response))
    => LET j == JSONParse(last.net.response.body)
       IN  /\ HasUsableMessage(j)
                => /\ last.req.threw
                   /\ Get(last.req.val, "message") = j.val.f["message"]
                   /\ Get(last.req.val, "status") = Num(last.net.response.status)
           /\ (~j.threw /\ ~HasUsableMessage(j) /\ j.val.t # "string")
                => /\ last.req.threw
                   /\ Get(last.req.val, "message") = Str("An error occurred")
                   /\ Get(last.req.val, "status") = Num(last.net.response.status)

C4_Witness ==
  /\ SettledResponse
  /\ last.net.response.status = 500
  /\ last.net.response.body = "{\"message\":\"Not found\"}"
  /\ last.req.threw
  /\ Get(last.req.val, "message") = Str("Not found")

\* a 4xx response with a non-empty body not declared as JSON
TextError4xx ==
  /\ SettledResponse
  /\ last.net.response.status \in 400..499
  /\ last.net.response.body # ""
  /\ ~Includes(last.net.response.ct, "application/json")

\* C5 as stated: every 4xx response with a non-empty body not declared as
\* JSON fails with the raw body text as message, also when that text parses
\* as JSON.
C5_TextBodyIsMessage ==
  TextError4xx
    => /\ last.req.threw
       /\ Get(last.req.val, "message") = Str(last.net.response.body)

\* C5, amended: a 4xx response with a non-empty body that is not declared as
\* JSON and does not parse as JSON fails with the raw body text as message.
C5_UnparseableTextBodyIsMessage ==
  (TextError4xx /\ ~IsJsonText(last.net.response.body))
    => /\ last.req.threw
       /\ Get(last.req.val, "message") = Str(last.net.response.body)
       /\ Get(last.req.val, "status") = Num(last.net.response.status)

C5_Witness ==
  /\ TextError4xx
  /\ last.net.response.body = "Not found"
  /\ last.net.response.ct = <<"text/plain">>
  /\ Get(last.req.val, "message") = Str("Not found")

\* C6: a response with status 204 resolves with undefined and its body is
\* neither read nor parsed, whatever content-type it declares.
C6_NoContentResolvesEmpty ==
  (SettledResponse /\ last.net.response.status = 204)
    => /\ ~last.req.threw
       /\ last.req.val = Undefined
       /\ ~last.req.bodyRead

C6_Witness ==
  /\ SettledResponse
  /\ last.net.response.status = 204
  /\ Includes(last.net.response.ct, "application/json")
  /\ last.net.response.body = "Not found"
  /\ ~last.req.threw

\* C7: a success response other than 204 resolves with the JSON value of the
\* body when the content-type contains application/json; otherwise with the
\* JSON value of the text when the text parses, and with the text itself
\* when it does not.  A request that resolves leaves the stored token as it
\* found it.
C7_SuccessReturnsParsedBody ==
  /\ (/\ SettledResponse
      /\ Ok(last.net.response)
      /\ last.net.response.status # 204)
       => LET body == last.net.response.body
          IN  IF Includes(last.net.response.ct, "application/json")
                THEN IsJsonText(body)
                       => /\ ~last.req.threw
                          /\ last.req.val = JSONParse(body).val
                ELSE /\ ~last.req.threw
                     /\ last.req.val =
                          IF IsJsonText(body) THEN JSONParse(body).val
                                              ELSE Str(body)
  /\ (Settled /\ ~last.req.threw)
       => last.req.env.storage = last.before.storage

C7_Witness ==
  /\ SettledResponse
  /\ last.net.response.status = 200
  /\ last.net.response.ct = <<"text/plain">>
  /\ last.net.response.body = "42"
  /\ last.req.val = Num(42)
  /\ last.before.storage[TOKEN_KEY] = Str("t1")

\* the path without its leading slash, if it has one
StripSlash(path) == IF path # << >> /\ Head(path) = "/" THEN Tail(path) ELSE path
\* the entries whose value is neither undefined nor null
PresentEntries(qs) ==
  IF qs.given
    THEN SelectSeq(qs.entries, LAMBDA e : e[2].t \notin {"undefined", "null"})
    ELSE << >>
\* s cut at every sep
RECURSIVE SplitAt(_, _)
SplitAt(s, sep) ==
  IF \A i \in 1..Len(s) : s[i] # sep
    THEN <<s>>
    ELSE LET k == CHOOSE i \in 1..Len(s) :
                    s[i] = sep /\ \A j \in 1..(i - 1) : s[j] # sep
         IN  <<SubSeq(s, 1, k - 1)>> \o SplitAt(SubSeq(s, k + 1, Len(s)), sep)

\* C8: buildUrl returns the base origin, then the path with exactly one
\* leading slash, then, only when some entry of the mapping has a value that
\* is neither undefined nor null, '?' and one key=value pair for each such
\* entry and no other; it leaves storage as it was.
C8_BuildUrlDropsAbsent ==
  bu.called =>
    LET prefix == API_BASE_URL \o <<"/">> \o StripSlash(bu.path)
        kept == PresentEntries(bu.qs)
        n == Len(prefix)
    IN  /\ SubSeq(bu.url, 1, n) = prefix
        /\ IF kept = << >>
             THEN bu.url = prefix
             ELSE /\ Len(bu.url) > n + 1
                  /\ bu.url[n + 1] = "?"
                  /\ LET pairs == SplitAt(SubSeq(bu.url, n + 2, Len(bu.url)), "&")
                     IN  /\ Len(pairs) = Len(kept)
                         /\ \A i \in 1..Len(kept) :
                              pairs[i] = FormEncode(kept[i][1]) \o <<"=">>
                                         \o FormEncode(StringChars(kept[i][2]))
        /\ storage = last.storageBefore

C8_Witness ==
  /\ bu.called
  /\ bu.path = <<"x">>
  /\ bu.qs.given
  /\ bu.qs.entries = << <<<<"a">>, Num(12)>>, <<<<"b">>, Undefined>> >>
  /\ bu.url = API_BASE_URL \o <<"/", "x", "?", "a", "=", "1", "2">>

\* C9: whenever a call of request meets status 401 the browser is sent to
\* /login?next=<the encoded path+query current at that moment>; no other
\* response and no error without status 401 navigates.
C9_Status401Redirects ==
  /\ (SettledResponse /\ last.net.response.status = 401) => RedirectedToLogin
  /\ (SettledResponse /\ last.net.response.status # 401) => NoNavigation
  /\ (SettledThrow /\ ~StrictEq(Get(last.net.error, "status"), Num(401)))
       => NoNavigation

\* C10: when fetch throws, request rethrows that very value; the stored token
\* and the location are left alone unless the value carries status 401, and
\* then the token is removed and the browser sent to the login redirect as
\* for a 401 response.
C10_TransportErrorRethrown ==
  SettledThrow =>
    /\ last.req.threw
    /\ last.req.val = last.net.error
    /\ IF StrictEq(Get(last.net.error, "status"), Num(401))
         THEN /\ last.req.env.storage = removeItem(last.before.storage, TOKEN_KEY)
              /\ RedirectedToLogin
         ELSE /\ last.req.env.storage = last.before.storage
              /\ NoNavigation

C10_Witness ==
  /\ SettledThrow
  /\ last.net.error = Obj([name |-> Str("TypeError"), message |-> Str("Failed to fetch")])
  /\ last.before.storage[TOKEN_KEY] = Str("t1")
  /\ storage[TOKEN_KEY] = Str("t1")
  /\ last.req.val = last.net.error

\* a response that declares JSON and whose body is not JSON
MalformedJson ==
  /\ SettledResponse
  /\ Includes(last.net.response.ct, "application/json")
  /\ ~IsJsonText(last.net.response.body)

\* the call failed with the parse error itself
FailedWithParseError ==
  /\ last.req.threw
  /\ last.req.val = SyntaxError
  /\ Get(last.req.val, "status") = Undefined
  /\ last.req.val # Str(last.net.response.body)

\* C11 as stated: a response that declares content-type application/json and
\* whose body is not valid JSON makes request fail with the parse error
\* itself, whatever the status, 204 included.
C11_MalformedJsonThrows == MalformedJson => FailedWithParseError

\* C11, amended: a response with a status other than 204 that declares
\* content-type application/json and whose body is not valid JSON makes
\* request fail with the parse error itself, not with a {message, status}
\* value and not with the raw text, for success and non-success statuses.
C11_MalformedJsonThrowsUnless204 ==
  (MalformedJson /\ last.net.response.status # 204) => FailedWithParseError

C11_Witness ==
  /\ MalformedJson
  /\ last.net.response.status = 500
  /\ last.net.response.body = "Not found"
  /\ FailedWithParseError

\* what request does with what fetch did, in a browser with empty storage
\* at the root page
requestAlone(net) ==
  request(net, [storage |-> EmptyStorage,
                loc |-> [pathname |-> <<"/">>, search |-> << >>],
                hrefs |-> << >>])

\* C12: calls in flight together are independent: a call is sent also when
\* an identical one is in flight, the calls in flight may settle in any
\* order, a call that settles leaves the others in flight, and its result or
\* error is the function of its own response that it would be alone.
C12_ConcurrentCallsIndependent ==
  /\ Issued => calls = last.inFlight (+) SetToBag({last.call})
  /\ Settled =>
       /\ \E req \in {requestAlone(last.net)} :
            /\ last.req.threw = req.threw
            /\ last.req.val = req.val
       /\ \A c \in BagToSet(last.before.calls) :
            CopiesIn(c, calls) =
              CopiesIn(c, last.before.calls) - (IF c = last.call THEN 1 ELSE 0)

\* two calls were in flight; one met a 401, the other then succeeded
C12_Witness ==
  /\ Settled
  /\ CopiesIn(last.call, last.before.calls) = 1
  /\ last.call.kind = "request"
  /\ ~last.req.threw
  /\ last.before.storage[TOKEN_KEY] = Null
  /\ last.call.auth # Undefined
  /\ navTarget # << >>
  /\ calls = EmptyBag

\* the authToken entry the gateway client left in the step: request's 401
\* handling, then login's setItem
GatewayToken ==
  IF last.call.kind = "request"
    THEN last.req.env.storage[TOKEN_KEY]
    ELSE login(last.req).env.storage[TOKEN_KEY]

\* C13: the value under authToken is written by the gateway's login/register
\* and deleted by the gateway's 401 handling only: the auth context's mount
\* effect, login and logout leave the entry as the gateway left it.
C13_OnlyGatewayWritesToken ==
  /\ Settled => storage[TOKEN_KEY] = GatewayToken
  /\ last.op \in {"mount", "logout"} => storage[TOKEN_KEY] = last.tokenBefore

\* C14: the gateway's login and register store the token only when their
\* request succeeded, and have stored it when they return the response; when
\* the request fails they fail with its error and write nothing.
C14_LoginStoresAfterSuccess ==
  (Settled /\ last.call.kind \in {"login", "register"}) =>
    /\ last.req.threw
         => /\ last.fin.threw
            /\ last.fin.val = last.req.val
            /\ storage = last.req.env.storage
            /\ storage[TOKEN_KEY] \in {last.before.storage[TOKEN_KEY], Null}
    /\ ~last.fin.threw
         => /\ ~last.req.threw
            /\ last.fin.val = last.req.val
            /\ storage = setItem(last.before.storage, TOKEN_KEY,
                                 Get(last.req.val, "token"))
    /\ storage[TOKEN_KEY] \notin {last.before.storage[TOKEN_KEY], Null}
         => ~last.req.threw /\ ~last.fin.threw

\* a failed login while a token of an earlier login is stored
C14_Witness ==
  /\ Settled
  /\ last.call.kind = "login"
  /\ last.req.threw
  /\ last.net.threw = FALSE
  /\ last.net.response.status = 500
  /\ last.net.response.body = JSONStringify(LoginTokenOnly)
  /\ last.before.storage[TOKEN_KEY] = Str("t1")
  /\ storage[TOKEN_KEY] = Str("t1")

\* C15: the stored token is read when a request is issued: a request issued
\* while no token is stored carries no Authorization header, and one issued
\* while a token is stored carries that token (the caller passing no
\* Authorization header of its own).
C15_TokenReadAtIssue ==
  (Issued /\ "Authorization" \notin DOMAIN last.caller) =>
    /\ last.tokenAt = storage[TOKEN_KEY]
    /\ IF Truthy(storage[TOKEN_KEY])
         THEN /\ "Authorization" \in DOMAIN last.headers
              /\ last.headers["Authorization"] = "Bearer " \o storage[TOKEN_KEY].v
              /\ last.call.auth = Str("Bearer " \o storage[TOKEN_KEY].v)
         ELSE /\ "Authorization" \notin DOMAIN last.headers
              /\ last.call.auth = Undefined

\* a request issued after a login stored a token and a 401 removed it
C15_Witness ==
  /\ Issued
  /\ last.caller = NoHeaders
  /\ storage[TOKEN_KEY] = Null
  /\ navTarget # << >>
  /\ last.sessionAt = Null
  /\ "Authorization" \notin DOMAIN last.headers

\* the last step settled a call of one of the view's handlers
ViewSettled == last.op = "viewSettle"
MutationSettled == ViewSettled /\ last.vop.type = "mutation"
\* the last step ended a fetch handler: its await resolved or rejected
FetchEnded ==
  /\ ViewSettled
  /\ last.vop.type = "fetch"
  /\ ~last.vop.done
  /\ (last.req.threw \/ last.vop.pending = {last.part})

\* C16: when every call of a view has settled, every mutation having been
\* followed by its re-fetch and every fetch having succeeded, the list
\* shown is the response to the fetch that was issued last, in whatever
\* order the responses arrived.
C16_LastIssuedFetchWins ==
  (/\ ui.section # "none"
   /\ ui.ops = {}
   /\ ui.started >= 2
   /\ ui.nextId = 2 + 2 * ui.started
   /\ ~ui.fetchFailed)
    => ui.list.from = ui.lastFetch

\* C17: in every list view a handler whose create, update, delete, restore
\* or toggle call succeeded issues one list re-fetch, and one whose call
\* failed issues none and leaves the displayed list as it was.
C17_RefetchAfterSuccessOnly ==
  MutationSettled =>
    IF ~last.req.threw
      THEN /\ ui.ops = (last.before.ops \ {last.vop})
                         \cup {fetchOp(last.before.nextId, ui.section)}
           /\ fetchOp(last.before.nextId, ui.section) \notin last.before.ops
           /\ ui.lastFetch = last.before.nextId
      ELSE /\ ui.ops = last.before.ops \ {last.vop}
           /\ ui.lastFetch = last.before.lastFetch
           /\ ui.list = last.before.list

\* a mutation of the Recipes view succeeded while another was in flight
C17_Witness ==
  /\ MutationSettled
  /\ ui.section = "recipes"
  /\ ~last.req.threw
  /\ \E op \in ui.ops : op.type = "mutation"
  /\ \E op \in ui.ops : op.type = "fetch" /\ op.id = ui.lastFetch
  /\ ui.loading

\* a handler's catch ran in the last step with an HTTP error: the error
\* caught, or Undefined
CaughtHttpError ==
  LET error ==
        IF Settled /\ last.call.kind = "pageLogin" /\ last.fin.threw
          THEN last.fin.val
        ELSE IF MutationSettled /\ last.req.threw THEN last.req.val
        ELSE IF FetchEnded /\ last.req.threw THEN last.req.val
        ELSE Undefined
  IN  IF Get(error, "status").t = "number" THEN error ELSE Undefined

\* C18: once a caller (login form, list view) caught an HTTP error, a toast
\* of type error carrying the error's message is in the list the
\* application's ToastContainer renders.
C18_ErrorToastRendered ==
  CaughtHttpError # Undefined =>
    \E i \in 1..Len(renderedToasts(ui.toasts)) :
      /\ renderedToasts(ui.toasts)[i].type = "error"
      /\ renderedToasts(ui.toasts)[i].message = Get(CaughtHttpError, "message")

\* C19: the loading indicator of a view is set while a fetch that set it
\* has not settled, and it is cleared when a fetch settles, whether it
\* succeeded or failed.
C19_LoadingUntilFetchSettles ==
  /\ \A op \in ui.ops :
       (/\ op.type = "fetch"
        /\ ~op.done
        /\ (setsLoading(ui.section) \/ op.id = 1))
         => ui.loading
  /\ FetchEnded => ~ui.loading

\* C20: each call of request sends exactly one network call: issuing adds
\* one call in flight, also when an identical one is in flight, and a call
\* that settles, whatever its outcome, leaves one call fewer in flight.
C20_OneFetchPerRequest ==
  /\ Issued => BagCardinality(calls) = BagCardinality(last.inFlight) + 1
  /\ Settled => BagCardinality(calls) = BagCardinality(last.before.calls) - 1

\* a call failed (HTTP error) and nothing is in flight afterwards
C20_Witness ==
  /\ SettledResponse
  /\ last.net.response.status = 404
  /\ last.req.threw
  /\ BagCardinality(last.before.calls) = 1
  /\ calls = EmptyBag

\* the tokens the model's server issues
ServerTokens == {Get(LoginTokenOnly, "token"), Get(LoginGuest, "token")}

\* the last step settled a call that found a token of a sign-in stored and
\* left none
TokenRemoved ==
  /\ Settled
  /\ last.before.storage[TOKEN_KEY] \in ServerTokens
  /\ storage[TOKEN_KEY] = Null

\* C22: a stored token is removed only by a 401 response to a request that
\* was issued carrying that same token.
C22_OnlyOwn401RemovesToken ==
  TokenRemoved =>
    /\ SettledResponse
    /\ last.net.response.status = 401
    /\ last.call.auth = Str("Bearer " \o last.before.storage[TOKEN_KEY].v)

\* the auth context's login rejected the sign-in for its role
RoleRejected ==
  /\ Settled
  /\ last.call.kind = "ctxLogin"
  /\ last.fin.threw
  /\ last.fin.val = AccessDenied

\* C23: when the auth context's login rejects a sign-in for its role,
\* storage and user are as before the attempt: no token of that sign-in, no
\* userData, user unset.
C23_RoleRejectionLeavesNoSession ==
  RoleRejected =>
    /\ storage = last.before.storage
    /\ user = last.before.user
    /\ user = Null

\* C24: while isAuthenticated, a session token is stored under authToken
\* and it is the token the server issued at the sign-in, never a missing
\* value or the string 'undefined'.
C24_AuthenticatedHasToken ==
  (~isLoading /\ isAuthenticated) =>
    /\ storage[TOKEN_KEY] # Null
    /\ storage[TOKEN_KEY] # Str("undefined")
    /\ session # Null
    /\ storage[TOKEN_KEY] = session

\* C25: after logout, from any state, authToken, refreshToken and userData
\* are absent, user is null and isAuthenticated is false; a second logout
\* changes nothing, and a request issued now carries no Authorization header.
C25_LogoutClearsSession ==
  last.op = "logout" =>
    /\ \A k \in StorageKeys : storage[k] = Null
    /\ user = Null
    /\ ~isAuthenticated
    /\ logout(storage) = storage
    /\ logout(logout(last.before.storage)) = logout(last.before.storage)
    /\ "Authorization" \notin DOMAIN requestHeaders(storage, NoHeaders)

\* a logout with a session stored and a call in flight
C25_Witness ==
  /\ last.op = "logout"
  /\ last.before.storage["authToken"] = Str("t1")
  /\ last.before.storage["refreshToken"] = Str("r1")
  /\ last.before.storage["userData"] # Null
  /\ calls # EmptyBag
  /\ storage = EmptyStorage

\* what the mount effect found
MountFound ==
  [tokenStored |-> Truthy(last.before.storage["authToken"]),
   dataStored |-> Truthy(last.before.storage["userData"]),
   parseable |-> /\ Truthy(last.before.storage["userData"])
                 /\ IsJsonText(last.before.storage["userData"].v)]

\* the parts of C26 the code and the claim agree on: the user is restored
\* only when both entries are stored and userData parses; isLoading is false
\* afterwards; isAuthenticated is: user set with role admin or user
MountRestoresAndEnds ==
  /\ IF MountFound.tokenStored /\ MountFound.parseable
       THEN /\ user = JSONParse(last.before.storage["userData"].v).val
            /\ storage = last.before.storage
       ELSE user = last.before.user
  /\ ~isLoading
  /\ isAuthenticated <=> (/\ user.t = "object"
                          /\ Get(user, "role") \in {Str("admin"), Str("user")})

\* C26 as stated: whenever userData is stored and does not parse, both keys
\* are removed, also when no authToken is stored.
C26_MountRestoresUser ==
  last.op = "mount" =>
    /\ MountRestoresAndEnds
    /\ (MountFound.dataStored /\ ~MountFound.parseable)
         => /\ storage = removeItem(removeItem(last.before.storage, "authToken"),
                                    "userData")
            /\ user = Null

\* C26, amended: the user is restored only when both authToken and a
\* parseable userData are stored; when both are stored and userData does
\* not parse, both keys are removed and user stays unset; in every other
\* case storage is left alone; isLoading is false after the check and
\* isAuthenticated holds exactly when user is set with role admin or user.
C26_MountRestoresUserWhenBothStored ==
  last.op = "mount" =>
    /\ MountRestoresAndEnds
    /\ IF MountFound.tokenStored /\ MountFound.dataStored /\ ~MountFound.parseable
         THEN /\ storage = removeItem(removeItem(last.before.storage, "authToken"),
                                      "userData")
              /\ user = Null
         ELSE storage = last.before.storage

\* both entries stored, userData not parseable: both removed
C26_Witness ==
  /\ last.op = "mount"
  /\ last.before.storage["authToken"] = Str("t1")
  /\ last.before.storage["userData"] = Str("Not found")
  /\ last.before.storage["refreshToken"] = Str("r1")
  /\ storage["authToken"] = Null
  /\ storage["userData"] = Null
  /\ storage["refreshToken"] = Str("r1")
  /\ ~isLoading

\* the price of the product under edit is a number below 2^51
PriceBelow2to51 ==
  \/ form.editingProduct.pricePaise = Zero
  \/ form.editingProduct.pricePaise.exp + 53 <= 51

\* an existing product with a price was opened and submitted with the
\* price field untouched, and the update was sent
SubmittedUntouched ==
  /\ form.section = "Products"
  /\ form.op.name = "handleSubmit"
  /\ form.op.result.sent
  /\ ~form.touched
  /\ form.editingProduct # Null
  /\ form.editingProduct.pricePaise # Undefined

\* C21 as stated: opening an existing product and submitting without
\* touching the price sends the pricePaise the product had, for every
\* non-negative integer pricePaise.
C21_PriceRoundTrip ==
  SubmittedUntouched
    => form.op.result.productData.pricePaise = form.editingProduct.pricePaise

\* C21 amended: opening an existing product and submitting without touching
\* the price sends the pricePaise the product had, for every non-negative
\* integer pricePaise below 2^51.
C21_PriceRoundTripBelow2to51 ==
  (SubmittedUntouched /\ PriceBelow2to51)
    => form.op.result.productData.pricePaise = form.editingProduct.pricePaise

\* 0.29 rupees, whose product with 100 is 28.999999999999996, was sent as 29
C21_Witness ==
  /\ SubmittedUntouched
  /\ form.editingProduct.pricePaise = integer(29)
  /\ form.formData.pricePaise = decimal(29)
  /\ form.op.result.productData.pricePaise = integer(29)

\* C27: a blog create or update request is never sent with an empty slug:
\* for every heading that passes the non-empty check of onSave, the payload
\* handed to createBlog or updateBlog has a non-empty slug.
C27_SavedSlugNotEmpty ==
  (form.section = "Blogs" /\ form.op.name = "onSave" /\ form.op.result.sent)
    => form.op.result.payload.slug # << >>

\* an add, remove or change handler of an editable list ran last
ListHandlerRan ==
  /\ form.section \in {"Blogs", "Recipes"}
  /\ form.op.name \in {"add", "remove", "change"}

Moved == form.section = "Blogs" /\ form.op.name = "moveBlock"

\* the blocks of a content list with the number of times each occurs
BlocksOf(content) ==
  [b \in {content[i] : i \in DOMAIN content} |->
     Cardinality({i \in DOMAIN content : content[i] = b})]

\* C29: moveBlock(idx, dir) swaps the block at idx with its neighbour at
\* idx+dir and changes nothing else; when idx+dir is outside the list the
\* content is unchanged.  After any sequence of moves the content has the
\* same length and the same multiset of blocks, and a move up followed by a
\* move down of the same block restores the order.
C29_MoveBlockSwaps ==
  Moved =>
    LET op == form.op
        was == op.before.content
        now == form.form.content
        swap == op.idx + op.dir
        inside == swap >= 0 /\ swap < Len(was)
    IN  /\ Len(now) = Len(was)
        /\ \A n \in DOMAIN now :
             now[n] = IF inside /\ n = op.idx + 1 THEN was[swap + 1]
                      ELSE IF inside /\ n = swap + 1 THEN was[op.idx + 1]
                      ELSE was[n]
        /\ [form.form EXCEPT !.content = was] = op.before
        /\ op.enabled <=> inside
        /\ Len(now) = Len(op.origin)
        /\ BlocksOf(now) = BlocksOf(op.origin)
        /\ (/\ op.dir = 1
            /\ op.prev.name = "moveBlock"
            /\ op.prev.dir = -1
            /\ op.prev.idx = op.idx + 1)
             => now = op.prev.before.content

\* a block of a content of three was moved up past a different block and
\* then down again
C29_Witness ==
  /\ Moved
  /\ Len(form.form.content) >= 3
  /\ form.op.dir = 1
  /\ form.op.prev.name = "moveBlock"
  /\ form.op.prev.dir = -1
  /\ form.op.prev.idx = form.op.idx + 1
  /\ form.op.before.content # form.op.prev.before.content
  /\ form.form.content = form.op.prev.before.content

\* C30: in the form of a new recipe, while the slug field has not been
\* edited, the slug is generateSlug(title) after every change of the title,
\* and the slug submitted is the slug of the full title.
C30_SlugFollowsTitle ==
  (form.section = "Recipes" /\ form.editing = Null /\ ~form.slugEdited) =>
    /\ form.op.name = "onChangeTitle"
         => form.form.slug = generateSlug(form.form.title)
    /\ form.op.name = "onSubmit"
         => form.op.payload.slug = generateSlug(form.form.title)

====
